---- MODULE Spec2Model ----
(***************************************************************************)
(* Model of the search endpoint of fast-penguin: the POST handler of       *)
(* routes/api/search/+server.js (multi-mode version), its rank fusion      *)
(* kernel reciprocalRankFusion and its preview-image helper fetchOgImage.  *)
(* Fusion scores are exact rationals [n, d] in lowest terms.               *)
(***************************************************************************)
EXTENDS Integers, Sequences, FiniteSets, TLC

(***************************************************************************)
(* Bounds                                                                  *)
(***************************************************************************)
\* longest list handed to reciprocalRankFusion in SpecFuse
MaxLen == 3

\* most hits one backend call returns in Spec
MaxHits == 2

\* largest top_k a request carries in Spec
MaxTopK == 2

(***************************************************************************)
(* Values                                                                  *)
(***************************************************************************)
\* document ids as property keys: "1" and "2" are integer-like keys
Ids == {"1", "2", "a", "b"}

\* a hit whose id is null or undefined
NoId == "null"

\* JavaScript values are tagged records, so that values of different types
\* can be compared: undefined (also an absent property), null, numbers,
\* strings and arrays
Undefined == [undef |-> TRUE]

Null == [null |-> TRUE]

Num(n) == [num |-> n]

Str(s) == [str |-> s]

Arr(s) == [arr |-> s]

IsNumber(v) == DOMAIN v = {"num"}

IsString(v) == DOMAIN v = {"str"}

IsArray(v) == DOMAIN v = {"arr"}

\* ToBoolean: undefined, null, 0 and "" are falsy
Truthy(v) == v \notin {Undefined, Null, Num(0), Str("")}

\* a || b
Or(a, b) == IF Truthy(a) THEN a ELSE b

\* s.trim() on the strings the model uses
Trim(s) ==
  CASE s = "  " -> ""
    [] s = " cat " -> "cat"
    [] OTHER -> s

\* s.startsWith('http') on the strings the model uses
StartsWithHttp(s) ==
  s \in {"http://h/1", "https://h/2", "httpx", "https://img/og.png",
         "http:h/x", "http_images/og.png"}

\* a null or undefined result list
NullList == [kind |-> "null"]

\* the dist value the backend puts on a hit
BackendDist == [backend |-> TRUE]

\* default of the parameter k of reciprocalRankFusion, and the argument POST passes
RRF_K == 60

\* numeric value of an integer-like property key, -1 for any other key
KeyIndex(key) ==
  CASE key = "1" -> 1
    [] key = "2" -> 2
    [] OTHER -> -1

(***************************************************************************)
(* Exact arithmetic for 1.0 / (k + rank)                                   *)
(***************************************************************************)
RECURSIVE GCD(_, _)
GCD(a, b) == IF b = 0 THEN a ELSE GCD(b, a % b)

Frac(n, d) == LET g == GCD(n, d) IN [n |-> n \div g, d |-> d \div g]

FracZero == [n |-> 0, d |-> 1]

FracAdd(a, b) == Frac(a.n * b.d + b.n * a.d, a.d * b.d)

FracLess(a, b) == a.n * b.d < b.n * a.d

(***************************************************************************)
(* Sequences helpers                                                       *)
(***************************************************************************)
Range(s) == {s[i] : i \in DOMAIN s}

\* injective sequences over S of length at most n
RECURSIVE UniqueSeqs(_, _)
UniqueSeqs(S, n) ==
  IF n = 0 THEN {<<>>}
  ELSE LET shorter == UniqueSeqs(S, n - 1)
           longest == {s \in shorter : Len(s) = n - 1}
       IN shorter \cup UNION {{Append(s, x) : x \in S \ Range(s)} : s \in longest}

\* s.slice(0, n) for an integer n >= 0
SliceTo(s, n) == IF n >= Len(s) THEN s ELSE SubSeq(s, 1, n)

(***************************************************************************)
(* reciprocalRankFusion                                                    *)
(***************************************************************************)
\* the attributes the dataset holds for an id (include_attributes: title, url);
\* "a" has an empty title and a url that is not HTTP(S), "b" has no attributes
AttributesOf(id) ==
  CASE id = "1" -> [title |-> Str("One"), url |-> Str("http://h/1")]
    [] id = "2" -> [title |-> Str("Two"), url |-> Str("https://h/2")]
    [] id = "a" -> [title |-> Str(""), url |-> Str("ftp://h/a")]
    [] OTHER -> Undefined

\* a hit object as the backend returns it; src names the call that produced it
Hit(id, src) ==
  [id |-> id, src |-> src, attributes |-> AttributesOf(id),
   dist |-> BackendDist, distance |-> Undefined]

\* the two objects scores and allResults before the loops; keys is the order
\* in which property keys were created
EmptyAcc == [keys |-> <<>>,
             scores |-> [x \in {} |-> FracZero],
             allResults |-> [x \in {} |-> Undefined]]

\* ScanItem with the score assigned instead of accumulated
ScanItemAssign(acc, item, rank, k) ==
  IF item # Undefined /\ item.id # NoId
  THEN LET key == item.id
           seen == key \in DOMAIN acc.scores
       IN [keys |-> IF seen THEN acc.keys ELSE Append(acc.keys, key),
           scores |-> (key :> Frac(1, k + rank)) @@ acc.scores,
           allResults |-> (key :> item) @@ acc.allResults]
  ELSE acc

\* ScanItem keeping the first object seen for an id
ScanItemKeepFirst(acc, item, rank, k) ==
  IF item # Undefined /\ item.id # NoId
  THEN LET key == item.id
           seen == key \in DOMAIN acc.scores
           old == IF seen THEN acc.scores[key] ELSE FracZero
       IN [keys |-> IF seen THEN acc.keys ELSE Append(acc.keys, key),
           scores |-> (key :> FracAdd(old, Frac(1, k + rank))) @@ acc.scores,
           allResults |-> acc.allResults @@ (key :> item)]
  ELSE acc

\* body of the inner loop for one rank
ScanItem(acc, item, rank, k) ==
  IF item # Undefined /\ item.id # NoId
  THEN LET key == item.id
           seen == key \in DOMAIN acc.scores
           old == IF seen THEN acc.scores[key] ELSE FracZero
       IN [keys |-> IF seen THEN acc.keys ELSE Append(acc.keys, key),
           scores |-> (key :> FracAdd(old, Frac(1, k + rank))) @@ acc.scores,
           allResults |-> (key :> item) @@ acc.allResults]
  ELSE acc

\* ScanList with ranks counted from 0
RECURSIVE ScanListFromZero(_, _, _, _)
ScanListFromZero(acc, hits, rank, k) ==
  IF rank > Len(hits) THEN acc
  ELSE ScanListFromZero(ScanItem(acc, hits[rank], rank - 1, k), hits, rank + 1, k)

\* inner loop: rank = 1 .. results.length
RECURSIVE ScanList(_, _, _, _)
ScanList(acc, hits, rank, k) ==
  IF rank > Len(hits) THEN acc
  ELSE ScanList(ScanItem(acc, hits[rank], rank, k), hits, rank + 1, k)

\* ScanLists leaving the outer loop at the first falsy list
RECURSIVE ScanListsBreak(_, _, _, _)
ScanListsBreak(acc, resultLists, i, k) ==
  IF i > Len(resultLists) THEN acc
  ELSE LET results == resultLists[i]
       IN IF results.kind = "array"
          THEN ScanListsBreak(ScanList(acc, results.hits, 1, k), resultLists, i + 1, k)
          ELSE acc

\* outer loop: for (const results of resultLists), skipping falsy lists; an
\* object that is not an array has no length, so its loop body never runs
RECURSIVE ScanLists(_, _, _, _)
ScanLists(acc, resultLists, i, k) ==
  IF i > Len(resultLists) THEN acc
  ELSE LET results == resultLists[i]
       IN ScanLists(IF results.kind = "array" THEN ScanList(acc, results.hits, 1, k) ELSE acc,
                    resultLists, i + 1, k)

\* integer-like keys of keys in ascending numeric order
RECURSIVE IntegerKeysAscending(_)
IntegerKeysAscending(keys) ==
  LET ints == {key \in keys : KeyIndex(key) >= 0}
  IN IF ints = {} THEN <<>>
     ELSE LET least == CHOOSE key \in ints : \A other \in ints : KeyIndex(key) <= KeyIndex(other)
          IN <<least>> \o IntegerKeysAscending(ints \ {least})

\* Object.entries(scores): integer-like keys ascending, then the other keys
\* in creation order
ObjectEntries(acc) ==
  LET keyOrder == IntegerKeysAscending(Range(acc.keys))
                    \o SelectSeq(acc.keys, LAMBDA key : KeyIndex(key) < 0)
  IN [i \in DOMAIN keyOrder |-> [docId |-> keyOrder[i], score |-> acc.scores[keyOrder[i]]]]

\* InsertDesc putting e before the entries of equal score
RECURSIVE InsertDescBeforeEqual(_, _)
InsertDescBeforeEqual(sorted, e) ==
  IF sorted = <<>> THEN <<e>>
  ELSE IF ~FracLess(e.score, Head(sorted).score) THEN <<e>> \o sorted
       ELSE <<Head(sorted)>> \o InsertDescBeforeEqual(Tail(sorted), e)

\* position at which a stable descending sort puts e into sorted
RECURSIVE InsertDesc(_, _)
InsertDesc(sorted, e) ==
  IF sorted = <<>> THEN <<e>>
  ELSE IF FracLess(Head(sorted).score, e.score) THEN <<e>> \o sorted
       ELSE <<Head(sorted)>> \o InsertDesc(Tail(sorted), e)

\* SortByScoreDesc without the sort
SortByScoreDescSkipped(entries) == entries

\* .sort(([, a], [, b]) => b - a), a stable sort
RECURSIVE SortByScoreDesc(_)
SortByScoreDesc(entries) ==
  IF entries = <<>> THEN <<>>
  ELSE InsertDesc(SortByScoreDesc(SubSeq(entries, 1, Len(entries) - 1)), entries[Len(entries)])

reciprocalRankFusion(resultLists, k) ==
  LET acc == ScanLists(EmptyAcc, resultLists, 1, k)
      sorted == SortByScoreDesc(ObjectEntries(acc))
  IN [i \in DOMAIN sorted |->
        [acc.allResults[sorted[i].docId] EXCEPT !.dist = sorted[i].score]]

(***************************************************************************)
(* State                                                                   *)
(***************************************************************************)
VARIABLES
  rrfPc,               \* "idle", "call" before reciprocalRankFusion runs, "return" after
  rrfArgs,             \* the argument resultLists
  rrfOut,              \* the returned sequence
  TPUF_API_KEY,        \* the configured credential, Undefined when not configured
  request,             \* the request body not yet read by POST
  pc,                  \* position of POST: "idle", "start", "awaitQuery",
                       \* "awaitHybrid", "awaitImages", "done"
  mode,                \* locals of POST
  query,
  vector,
  top_k_from_request,
  calls,               \* options of the ns.query calls issued, in order
  replies,             \* per call: Pending, or what the backend answered
  results,             \* the hits being enriched (results / finalHybridResults)
  enrich,              \* per hit: the state of its fetchOgImage call
  response             \* the response returned by POST, status 0 while none

rrfVars == <<rrfPc, rrfArgs, rrfOut>>

localVars == <<mode, query, vector, top_k_from_request>>

serverVars == <<rrfPc, rrfArgs, rrfOut, TPUF_API_KEY, request, pc, mode, query, vector,
                top_k_from_request, calls, replies, results, enrich, response>>

\* the search page (+page.svelte); results and error of the page are
\* pageResults and pageError
VARIABLES
  EMBEDDING_API_URL,   \* the configured embedding endpoint, Undefined when not configured
  searchTerm,
  searchType,
  previousSearchType,  \* _previousSearchType
  pageResults,
  isLoadingEmbedding,
  isLoadingTurbopuffer,
  pageError,
  debounceTimer,       \* Undefined, or the id setTimeout returned last
  searchPerformedForCurrentTerm,
  timers,              \* the browser's timers by id: milliseconds left and
                       \* "pending", "cleared" or "fired"
  typeChanges,         \* how often the user has changed the search type
  searches             \* the calls of fetchResults in the order they started

pageVars == <<EMBEDDING_API_URL, searchTerm, searchType, previousSearchType, pageResults,
              isLoadingEmbedding, isLoadingTurbopuffer, pageError, debounceTimer,
              searchPerformedForCurrentTerm, timers, typeChanges, searches>>

\* two invocations of POST on one server
VARIABLES
  frames,              \* per invocation: its request and the locals of POST
  alone                \* per invocation: the frame of the same request handled by a
                       \* server of its own, resumed with the same events

pairVars == <<frames, alone>>

vars == <<serverVars, pageVars, pairVars>>

\* the page as its script block leaves it
PageLoaded ==
  /\ searchTerm = "" /\ searchType = "semantic" /\ previousSearchType = "semantic"
  /\ pageResults = <<>>
  /\ isLoadingEmbedding = FALSE /\ isLoadingTurbopuffer = FALSE
  /\ pageError = Null
  /\ debounceTimer = Undefined
  /\ searchPerformedForCurrentTerm = FALSE
  /\ timers = <<>> /\ typeChanges = 0 /\ searches = <<>>

\* no page is open and no second invocation exists
PageIdle ==
  /\ EMBEDDING_API_URL = Undefined /\ PageLoaded
  /\ frames = <<>> /\ alone = <<>>

\* a call the backend has not answered yet
Pending == [kind |-> "pending"]

\* the body once request.json() has read it
Consumed == [kind |-> "consumed"]

NoResponse == [status |-> 0, body |-> Undefined]

(***************************************************************************)
(* SpecFuse: reciprocalRankFusion applied to bounded inputs                *)
(***************************************************************************)
\* the lists a backend call can return: ids unique within a list
HitLists(ids, src, n) ==
  {[kind |-> "array", hits |-> [i \in DOMAIN s |-> Hit(s[i], src)]] : s \in UniqueSeqs(ids, n)}

FuseInputs(src) == HitLists(Ids \cup {NoId}, src, MaxLen) \cup {NullList}

\* no request is being handled
HandlerIdle ==
  /\ TPUF_API_KEY = Undefined
  /\ request = Consumed
  /\ pc = "idle"
  /\ mode = Undefined /\ query = Undefined /\ vector = Undefined
  /\ top_k_from_request = Undefined
  /\ calls = <<>> /\ replies = <<>> /\ results = <<>> /\ enrich = <<>>
  /\ response = NoResponse

InitFuse ==
  /\ rrfPc = "call"
  /\ rrfArgs \in {<<a>> : a \in FuseInputs(1)}
                   \cup {<<a, b>> : a \in FuseInputs(1), b \in FuseInputs(2)}
  /\ rrfOut = <<>>
  /\ HandlerIdle
  /\ PageIdle

Fuse ==
  /\ rrfPc = "call"
  /\ rrfOut' = reciprocalRankFusion(rrfArgs, RRF_K)
  /\ rrfPc' = "return"
  /\ UNCHANGED <<pageVars, pairVars, rrfArgs, TPUF_API_KEY, request, pc, localVars, calls, replies,
                 results, enrich, response>>

NextFuse == Fuse

SpecFuse == InitFuse /\ [][NextFuse]_vars

(***************************************************************************)
(* POST: parsing and validation                                            *)
(***************************************************************************)
\* IsNumberArray without the test of the elements
IsNumberArrayUnchecked(v) == IsArray(v)

\* Array.isArray(vector) && vector.every(n => typeof n === 'number')
IsNumberArray(v) == IsArray(v) /\ \A i \in DOMAIN v.arr : IsNumber(v.arr[i])

\* typeof query !== 'string' || query.trim() === ''
IsBlankOrNotString(q) == ~IsString(q) \/ Trim(q.str) = ""

\* the try block of POST: the locals it assigns and the 400 message it
\* returns, "" when the request passes; a body that cannot be parsed, or that
\* is the JSON value null, throws before any local is assigned
ParseRequest(req) ==
  IF req.kind # "object"
  THEN [mode |-> Undefined, query |-> Undefined, vector |-> Undefined,
        top_k |-> Undefined, error |-> "Invalid JSON body"]
  ELSE LET m == Or(Or(req.mode, req.search_type), Str("fulltext"))
           none == [mode |-> m, query |-> Undefined, vector |-> Undefined,
                    top_k |-> Undefined, error |-> ""]
       IN CASE m = Str("semantic") ->
                 [none EXCEPT !.vector = req.vector, !.top_k = req.top_k,
                              !.error = IF ~IsNumberArray(req.vector)
                                        THEN "Semantic search requires a valid vector"
                                        ELSE ""]
            [] m = Str("fulltext") ->
                 [none EXCEPT !.query = req.query, !.top_k = req.top_k,
                              !.error = IF IsBlankOrNotString(req.query)
                                        THEN "Fulltext search requires a non-empty query"
                                        ELSE ""]
            [] m = Str("phrase") ->
                 [none EXCEPT !.query = req.query, !.top_k = req.top_k,
                              !.error = IF IsBlankOrNotString(req.query)
                                        THEN "Phrase search requires a non-empty query"
                                        ELSE ""]
            [] m = Str("hybrid") ->
                 [none EXCEPT !.query = req.query, !.vector = req.vector,
                              !.top_k = req.top_k,
                              !.error = IF IsBlankOrNotString(req.query)
                                        THEN "Hybrid search requires a non-empty query"
                                        ELSE IF ~IsNumberArray(req.vector)
                                        THEN "Hybrid search requires a valid vector"
                                        ELSE ""]
            [] OTHER -> [none EXCEPT !.error = "Unsupported search mode"]

(***************************************************************************)
(* POST: query options                                                     *)
(***************************************************************************)
\* top_k used when the request carries none
DEFAULT_TOP_K == 20

IncludeAttributes == <<"title", "url">>

\* an options object with none of the optional properties
NoOptions ==
  [rank_by |-> Undefined, vector |-> Undefined, filters |-> Undefined,
   distance_metric |-> Undefined, top_k |-> Undefined,
   include_attributes |-> IncludeAttributes]

\* QueryOptions starting from an options object that still has a rank_by
QueryOptionsStaleRankBy(m, q, v, top_k) ==
  LET base == [NoOptions EXCEPT !.top_k = Or(top_k, Num(DEFAULT_TOP_K)),
                                !.rank_by = <<"title", "BM25", q>>]
  IN CASE m = Str("semantic") ->
            [base EXCEPT !.vector = v, !.distance_metric = Str("cosine_distance")]
       [] m = Str("phrase") ->
            [base EXCEPT !.filters = [title |-> <<"ContainsAllTokens", q>>]]
       [] OTHER -> base

\* queryOptions for the modes that issue one call
QueryOptions(m, q, v, top_k) ==
  LET base == [NoOptions EXCEPT !.top_k = Or(top_k, Num(DEFAULT_TOP_K))]
  IN CASE m = Str("semantic") ->
            [base EXCEPT !.vector = v, !.distance_metric = Str("cosine_distance")]
       [] m = Str("fulltext") ->
            [base EXCEPT !.rank_by = <<"title", "BM25", q>>]
       [] m = Str("phrase") ->
            [base EXCEPT !.filters = [title |-> <<"ContainsAllTokens", q>>]]
       [] OTHER -> base

\* options of the full-text sub-call of hybrid mode
FtsOptions(q, top_k) ==
  [NoOptions EXCEPT !.rank_by = <<"title", "BM25", q>>, !.top_k = top_k]

\* options of the vector sub-call of hybrid mode
VectorOptions(v, top_k) ==
  [NoOptions EXCEPT !.vector = v, !.top_k = top_k]

(***************************************************************************)
(* fetchOgImage and the response items                                     *)
(***************************************************************************)
\* result.attributes || {}, then a property of it
AttributeOf(result, name) ==
  IF Truthy(result.attributes) THEN result.attributes[name] ELSE Undefined

\* fetchOgImage up to its first await: an invalid url returns null without a
\* fetch, any other url arms the 5 second timer and issues the GET; the url
\* test is outside the try block, so a truthy url that is not a string makes
\* the call throw
StartFetchOgImage(url) ==
  IF ~Truthy(url)
  THEN [pc |-> "done", ogImage |-> Null, fetched |-> FALSE, timer |-> "none", elapsed |-> FALSE]
  ELSE IF ~IsString(url)
  THEN [pc |-> "threw", ogImage |-> Undefined, fetched |-> FALSE, timer |-> "none", elapsed |-> FALSE]
  ELSE IF ~StartsWithHttp(url.str)
  THEN [pc |-> "done", ogImage |-> Null, fetched |-> FALSE, timer |-> "none", elapsed |-> FALSE]
  ELSE [pc |-> "fetch", ogImage |-> Undefined, fetched |-> TRUE, timer |-> "armed", elapsed |-> FALSE]

\* fetchOgImage once fetch has resolved: clearTimeout, then the status and
\* content-type checks; an HTML page goes on to await response.text()
AfterFetchResolved(e, ok, contentType) ==
  IF ~ok \/ ~Truthy(contentType) \/ contentType # Str("text/html; charset=utf-8")
  THEN [e EXCEPT !.pc = "done", !.ogImage = Null, !.timer = "cleared"]
  ELSE [e EXCEPT !.pc = "text", !.timer = "cleared"]

\* fetchOgImage once the body is read: the content of the og:image tag when
\* it starts with http, null otherwise (content is Undefined without a tag)
AfterTextResolved(e, content) ==
  [e EXCEPT !.pc = "done",
            !.ogImage = IF Truthy(content) /\ StartsWithHttp(content.str)
                        THEN content ELSE Null]

\* the catch block of fetchOgImage rethrowing the error
AfterCatchRethrow(e) == [e EXCEPT !.pc = "threw"]

\* the catch block of fetchOgImage
AfterCatch(e) == [e EXCEPT !.pc = "done", !.ogImage = Null]

\* ResponseItem leaving ogImage out when there is no image
ResponseItemOmitNull(result, ogImage) ==
  [id |-> result.id,
   title |-> Or(AttributeOf(result, "title"), Str("N/A")),
   url |-> Or(AttributeOf(result, "url"), Str("#")),
   ogImage |-> IF ogImage = Null THEN Undefined ELSE ogImage,
   distance |-> result.distance]

\* the object the map callback returns for a hit
ResponseItem(result, ogImage) ==
  [id |-> result.id,
   title |-> Or(AttributeOf(result, "title"), Str("N/A")),
   url |-> Or(AttributeOf(result, "url"), Str("#")),
   ogImage |-> ogImage,
   distance |-> result.distance]

\* AllSettled satisfied by the first call that settles
AllSettledAny(en) == en = <<>> \/ \E i \in DOMAIN en : en[i].pc = "done"

AllSettled(en) == \A i \in DOMAIN en : en[i].pc = "done"

AnyThrew(en) == \E i \in DOMAIN en : en[i].pc = "threw"

\* await Promise.all(...map(...)) and return json(resultsWithImages): the
\* response is sent once every fetchOgImage call has settled; a call that
\* throws rejects Promise.all and the catch block of POST answers
AwaitImages(res, en) ==
  /\ results' = res
  /\ enrich' = en
  /\ IF AnyThrew(en)
     THEN /\ pc' = "done"
          /\ response' = [status |-> 500,
                          body |-> [error |-> "Internal Server Error",
                                    details |-> "url.startsWith is not a function"]]
     ELSE IF AllSettled(en)
     THEN /\ pc' = "done"
          /\ response' = [status |-> 200,
                          body |-> Arr([i \in DOMAIN res |-> ResponseItem(res[i], en[i].ogImage)])]
     ELSE /\ pc' = "awaitImages"
          /\ response' = response

\* results.map(async (result) => ... fetchOgImage(attributes.url) ...)
StartImages(res) ==
  AwaitImages(res, [i \in DOMAIN res |-> StartFetchOgImage(AttributeOf(res[i], "url"))])

\* return json({error ...}, {status})
Respond(status, body) ==
  /\ pc' = "done"
  /\ response' = [status |-> status, body |-> body]

(***************************************************************************)
(* Spec: one request through POST                                          *)
(***************************************************************************)
ModeValues ==
  {Undefined, Null, Str(""), Str("semantic"), Str("fulltext"), Str("phrase"),
   Str("hybrid"), Str("bogus"), Num(7)}

SearchTypeValues == {Undefined, Str("hybrid"), Str("phrase")}

QueryValues == {Undefined, Num(5), Str(""), Str("  "), Str("cat")}

VectorValues == {Undefined, Str("0.1"), Arr(<<>>), Arr(<<Str("x")>>), Arr(<<Num(1)>>)}

TopKValues == {Undefined} \cup {Num(n) : n \in 0..MaxTopK}

Requests ==
  {[kind |-> "unparseable"], [kind |-> "null"]}
    \cup [kind : {"object"}, mode : ModeValues, search_type : SearchTypeValues,
          query : QueryValues, vector : VectorValues, top_k : TopKValues]

\* what ns.query can resolve to: an array of hits, an object wrapping the
\* array in .vectors, an object that is neither, or a falsy value
QueryResults(src) ==
  HitLists(Ids, src, MaxHits)
    \cup {[kind |-> "vectors", hits |-> l.hits] : l \in HitLists(Ids, src, 1)}
    \cup {[kind |-> "object"], NullList}

\* the content types a page is served with
ContentTypes == {Undefined, Str("text/html; charset=utf-8"), Str("image/png")}

\* the content of the og:image tag of a page, Undefined when it has none
OgContents == {Undefined, Str("/og.png"), Str("https://img/og.png")}

Init ==
  /\ rrfPc = "idle" /\ rrfArgs = <<>> /\ rrfOut = <<>>
  /\ TPUF_API_KEY \in {Undefined, Str("tpuf_key")}
  /\ request \in Requests
  /\ pc = "start"
  /\ mode = Undefined /\ query = Undefined /\ vector = Undefined
  /\ top_k_from_request = Undefined
  /\ calls = <<>> /\ replies = <<>> /\ results = <<>> /\ enrich = <<>>
  /\ response = NoResponse
  /\ PageIdle

\* CredentialMissing never reporting a missing credential
CredentialMissingIgnored(key) == FALSE

\* if (!TPUF_API_KEY)
CredentialMissing(key) == ~Truthy(key)

\* POST_Begin checking the credential before it reads the body
POST_BeginCredentialFirst ==
  /\ pc = "start"
  /\ LET p == ParseRequest(request)
     IN /\ request' = Consumed
        /\ mode' = p.mode /\ query' = p.query /\ vector' = p.vector
        /\ top_k_from_request' = p.top_k
        /\ IF CredentialMissing(TPUF_API_KEY)
           THEN /\ Respond(500, [error |-> "Server configuration error"])
                /\ UNCHANGED <<calls, replies>>
           ELSE IF p.error # ""
           THEN /\ Respond(400, [error |-> p.error])
                /\ UNCHANGED <<calls, replies>>
           ELSE IF p.mode = Str("hybrid")
           THEN /\ calls' = <<FtsOptions(p.query, p.top_k), VectorOptions(p.vector, p.top_k)>>
                /\ replies' = <<Pending, Pending>>
                /\ pc' = "awaitHybrid"
                /\ UNCHANGED response
           ELSE /\ calls' = <<QueryOptions(p.mode, p.query, p.vector, p.top_k)>>
                /\ replies' = <<Pending>>
                /\ pc' = "awaitQuery"
                /\ UNCHANGED response
  /\ UNCHANGED <<pageVars, pairVars, rrfVars, TPUF_API_KEY, results, enrich>>

\* POST from its entry to its first await on the backend: parse, validate,
\* check the credential, build the options and issue the call(s)
POST_Begin ==
  /\ pc = "start"
  /\ LET p == ParseRequest(request)
     IN /\ request' = Consumed
        /\ mode' = p.mode /\ query' = p.query /\ vector' = p.vector
        /\ top_k_from_request' = p.top_k
        /\ IF p.error # ""
           THEN /\ Respond(400, [error |-> p.error])
                /\ UNCHANGED <<calls, replies>>
           ELSE IF CredentialMissing(TPUF_API_KEY)
           THEN /\ Respond(500, [error |-> "Server configuration error"])
                /\ UNCHANGED <<calls, replies>>
           ELSE IF p.mode = Str("hybrid")
           THEN /\ calls' = <<FtsOptions(p.query, p.top_k), VectorOptions(p.vector, p.top_k)>>
                /\ replies' = <<Pending, Pending>>
                /\ pc' = "awaitHybrid"
                /\ UNCHANGED response
           ELSE /\ calls' = <<QueryOptions(p.mode, p.query, p.vector, p.top_k)>>
                /\ replies' = <<Pending>>
                /\ pc' = "awaitQuery"
                /\ UNCHANGED response
  /\ UNCHANGED <<pageVars, pairVars, rrfVars, TPUF_API_KEY, results, enrich>>

\* await ns.query(queryOptions) resolves: the checks on queryResult, then the
\* enrichment fan-out
QueryResolves(queryResult) ==
  /\ pc = "awaitQuery"
  /\ replies' = <<queryResult>>
  /\ IF queryResult.kind = "null"
     THEN /\ Respond(500, [error |-> "Turbopuffer query failed unexpectedly."])
          /\ UNCHANGED <<results, enrich>>
     ELSE IF queryResult.kind = "object"
     THEN /\ Respond(500, [error |-> "Unexpected response format from Turbopuffer"])
          /\ UNCHANGED <<results, enrich>>
     ELSE StartImages(queryResult.hits)
  /\ UNCHANGED <<pageVars, pairVars, rrfVars, TPUF_API_KEY, request, localVars, calls>>

\* InternalServerError answering without the message of the error it caught
InternalServerErrorOpaque(message) ==
  Respond(500, [error |-> "Internal Server Error", details |-> "Internal Server Error"])

\* the catch block at the end of POST
InternalServerError(message) ==
  Respond(500, [error |-> "Internal Server Error", details |-> message])

\* await ns.query(queryOptions) rejects
QueryRejects(message) ==
  /\ pc = "awaitQuery"
  /\ replies' = <<[kind |-> "throw", message |-> message]>>
  /\ InternalServerError(message)
  /\ UNCHANGED <<pageVars, pairVars, rrfVars, TPUF_API_KEY, request, localVars, calls, results, enrich>>

\* SliceTopK keeping one entry too many
SliceTopKOffByOne(fused, top_k) ==
  IF top_k = Undefined THEN fused ELSE SliceTo(fused, top_k.num + 1)

\* fusedResults.slice(0, top_k_from_request)
SliceTopK(fused, top_k) ==
  IF top_k = Undefined THEN fused ELSE SliceTo(fused, top_k.num)

\* SubcallResolves going on with the lists it has once both sub-calls have
\* settled, a rejected one included
SubcallResolvesSettled(c, result) ==
  /\ pc \in {"awaitHybrid", "done"}
  /\ c \in DOMAIN replies /\ Len(calls) = 2
  /\ replies[c] = Pending
  /\ replies' = [replies EXCEPT ![c] = result]
  /\ IF \A d \in DOMAIN replies : d # c => replies[d] # Pending
     THEN LET lists == [replies EXCEPT ![c] = result]
              fusedResults == reciprocalRankFusion(lists, RRF_K)
          IN /\ rrfPc' = "return" /\ rrfArgs' = lists /\ rrfOut' = fusedResults
             /\ StartImages(SliceTopK(fusedResults, top_k_from_request))
     ELSE UNCHANGED <<rrfVars, pc, response, results, enrich>>
  /\ UNCHANGED <<pageVars, pairVars, TPUF_API_KEY, request, localVars, calls>>

\* SubcallResolves falling through to the ns.query(queryOptions) of the
\* single-call modes after the fusion
SubcallResolvesFallThrough(c, result) ==
  /\ pc \in {"awaitHybrid", "done"}
  /\ c \in DOMAIN replies /\ Len(calls) = 2
  /\ replies[c] = Pending
  /\ replies' = [replies EXCEPT ![c] = result]
  /\ IF pc = "awaitHybrid" /\ \A d \in DOMAIN replies : d # c => replies[d] # Pending
     THEN LET lists == [replies EXCEPT ![c] = result]
              fusedResults == reciprocalRankFusion(lists, RRF_K)
          IN /\ rrfPc' = "return" /\ rrfArgs' = lists /\ rrfOut' = fusedResults
             /\ StartImages(SliceTopK(fusedResults, top_k_from_request))
             /\ calls' = Append(calls, QueryOptions(mode, query, vector, top_k_from_request))
     ELSE UNCHANGED <<rrfVars, pc, response, results, enrich, calls>>
  /\ UNCHANGED <<pageVars, pairVars, TPUF_API_KEY, request, localVars>>

\* SubcallResolves fusing the two lists in the order in which they arrived
SubcallResolvesArrivalOrder(c, result) ==
  /\ pc \in {"awaitHybrid", "done"}
  /\ c \in DOMAIN replies /\ Len(calls) = 2
  /\ replies[c] = Pending
  /\ replies' = [replies EXCEPT ![c] = result]
  /\ IF pc = "awaitHybrid" /\ \A d \in DOMAIN replies : d # c => replies[d] # Pending
     THEN LET lists == <<replies[3 - c], result>>
              fusedResults == reciprocalRankFusion(lists, RRF_K)
          IN /\ rrfPc' = "return" /\ rrfArgs' = lists /\ rrfOut' = fusedResults
             /\ StartImages(SliceTopK(fusedResults, top_k_from_request))
     ELSE UNCHANGED <<rrfVars, pc, response, results, enrich>>
  /\ UNCHANGED <<pageVars, pairVars, TPUF_API_KEY, request, localVars, calls>>

\* one of the two hybrid sub-calls resolves; when it is the second,
\* Promise.all resolves and POST fuses, truncates and fans out the enrichment
SubcallResolves(c, result) ==
  /\ pc \in {"awaitHybrid", "done"}
  /\ c \in DOMAIN replies /\ Len(calls) = 2
  /\ replies[c] = Pending
  /\ replies' = [replies EXCEPT ![c] = result]
  /\ IF pc = "awaitHybrid" /\ \A d \in DOMAIN replies : d # c => replies[d] # Pending
     THEN LET lists == [replies EXCEPT ![c] = result]
              fusedResults == reciprocalRankFusion(lists, RRF_K)
          IN /\ rrfPc' = "return" /\ rrfArgs' = lists /\ rrfOut' = fusedResults
             /\ StartImages(SliceTopK(fusedResults, top_k_from_request))
     ELSE UNCHANGED <<rrfVars, pc, response, results, enrich>>
  /\ UNCHANGED <<pageVars, pairVars, TPUF_API_KEY, request, localVars, calls>>

\* one of the two hybrid sub-calls rejects: Promise.all rejects at the first
\* rejection and the catch block answers; a later settlement is ignored
SubcallRejects(c, message) ==
  /\ pc \in {"awaitHybrid", "done"}
  /\ c \in DOMAIN replies /\ Len(calls) = 2
  /\ replies[c] = Pending
  /\ replies' = [replies EXCEPT ![c] = [kind |-> "throw", message |-> message]]
  /\ IF pc = "awaitHybrid"
     THEN InternalServerError(message)
     ELSE UNCHANGED <<pc, response>>
  /\ UNCHANGED <<pageVars, pairVars, rrfVars, TPUF_API_KEY, request, localVars, calls, results, enrich>>

\* the GET of hit i answers with a status line and headers
FetchResolves(i, ok, contentType) ==
  /\ pc = "awaitImages"
  /\ i \in DOMAIN enrich /\ enrich[i].pc = "fetch"
  /\ AwaitImages(results, [enrich EXCEPT ![i] = AfterFetchResolved(@, ok, contentType)])
  /\ UNCHANGED <<pageVars, pairVars, rrfVars, TPUF_API_KEY, request, localVars, calls, replies>>

\* the GET of hit i fails with a network error
FetchRejects(i) ==
  /\ pc = "awaitImages"
  /\ i \in DOMAIN enrich /\ enrich[i].pc = "fetch"
  /\ AwaitImages(results, [enrich EXCEPT ![i] = AfterCatch(@)])
  /\ UNCHANGED <<pageVars, pairVars, rrfVars, TPUF_API_KEY, request, localVars, calls, replies>>

\* 5 seconds have passed since fetchOgImage of hit i armed its timer: an armed
\* timer aborts the fetch, which rejects with AbortError; a cleared one does nothing
TimeoutElapses(i) ==
  /\ pc = "awaitImages"
  /\ i \in DOMAIN enrich /\ enrich[i].pc \in {"fetch", "text"} /\ ~enrich[i].elapsed
  /\ AwaitImages(results,
                 [enrich EXCEPT ![i] = IF @.timer = "armed"
                                       THEN [AfterCatch(@) EXCEPT !.elapsed = TRUE, !.timer = "fired"]
                                       ELSE [@ EXCEPT !.elapsed = TRUE]])
  /\ UNCHANGED <<pageVars, pairVars, rrfVars, TPUF_API_KEY, request, localVars, calls, replies>>

\* the body of the page of hit i has arrived and is parsed
TextResolves(i, content) ==
  /\ pc = "awaitImages"
  /\ i \in DOMAIN enrich /\ enrich[i].pc = "text"
  /\ AwaitImages(results, [enrich EXCEPT ![i] = AfterTextResolved(@, content)])
  /\ UNCHANGED <<pageVars, pairVars, rrfVars, TPUF_API_KEY, request, localVars, calls, replies>>

\* reading the body of the page of hit i fails
TextRejects(i) ==
  /\ pc = "awaitImages"
  /\ i \in DOMAIN enrich /\ enrich[i].pc = "text"
  /\ AwaitImages(results, [enrich EXCEPT ![i] = AfterCatch(@)])
  /\ UNCHANGED <<pageVars, pairVars, rrfVars, TPUF_API_KEY, request, localVars, calls, replies>>

\* the messages a backend error carries
ErrorMessages == {"401 Unauthorized", "fetch failed"}

\* the hits one request can return
MaxResults == 2 * MaxHits

Next ==
  \/ POST_Begin
  \/ \E queryResult \in QueryResults("query") : QueryResolves(queryResult)
  \/ \E message \in ErrorMessages : QueryRejects(message)
  \/ \E c \in 1..2 : \E result \in QueryResults(c) : SubcallResolves(c, result)
  \/ \E c \in 1..2 : \E message \in ErrorMessages : SubcallRejects(c, message)
  \/ \E i \in 1..MaxResults : \E ok \in BOOLEAN : \E contentType \in ContentTypes :
       FetchResolves(i, ok, contentType)
  \/ \E i \in 1..MaxResults : FetchRejects(i)
  \/ \E i \in 1..MaxResults : TimeoutElapses(i)
  \/ \E i \in 1..MaxResults : \E content \in OgContents : TextResolves(i, content)
  \/ \E i \in 1..MaxResults : TextRejects(i)

Spec == Init /\ [][Next]_vars

(***************************************************************************)
(* SpecEnrich: fetchOgImage on every kind of url and of og:image content   *)
(***************************************************************************)
\* the url attribute of a hit: absent, empty, not HTTP(S), starting with
\* http without being an http:// or https:// url, and HTTP(S)
UrlValues ==
  {Undefined, Str(""), Str("ftp://h/a"), Str("http:h/x"), Str("http://h/1"), Str("https://h/2")}

\* the content of the og:image tag of a page, a relative path that starts
\* with http included
EnrichOgContents == OgContents \cup {Str("http_images/og.png")}

\* a hit of the single ns.query call whose url attribute is url
HitWithUrl(id, url) ==
  [Hit(id, "query") EXCEPT !.attributes = [title |-> Str("One"), url |-> url]]

\* the answers of the backend: one or two hits with any urls
EnrichQueryResults ==
  {[kind |-> "array", hits |-> <<HitWithUrl("1", u)>>] : u \in UrlValues}
    \cup {[kind |-> "array", hits |-> <<HitWithUrl("1", u), HitWithUrl("2", v)>>] :
             u \in UrlValues, v \in UrlValues}

\* fulltext requests that pass validation
EnrichRequests ==
  {req \in Requests :
     /\ req.kind = "object" /\ req.mode = Str("fulltext") /\ req.search_type = Undefined
     /\ req.query = Str("cat") /\ req.vector = Undefined}

InitEnrich ==
  /\ rrfPc = "idle" /\ rrfArgs = <<>> /\ rrfOut = <<>>
  /\ TPUF_API_KEY = Str("tpuf_key")
  /\ request \in EnrichRequests
  /\ pc = "start"
  /\ mode = Undefined /\ query = Undefined /\ vector = Undefined
  /\ top_k_from_request = Undefined
  /\ calls = <<>> /\ replies = <<>> /\ results = <<>> /\ enrich = <<>>
  /\ response = NoResponse
  /\ PageIdle

NextEnrich ==
  \/ POST_Begin
  \/ \E queryResult \in EnrichQueryResults : QueryResolves(queryResult)
  \/ \E i \in 1..2 : \E ok \in BOOLEAN : \E contentType \in ContentTypes :
       FetchResolves(i, ok, contentType)
  \/ \E i \in 1..2 : FetchRejects(i)
  \/ \E i \in 1..2 : TimeoutElapses(i)
  \/ \E i \in 1..2 : TextRejects(i)
  \/ \E i \in 1..2 : \E content \in EnrichOgContents : TextResolves(i, content)

SpecEnrich == InitEnrich /\ [][NextEnrich]_vars

(***************************************************************************)
(* SpecPair: two requests handled concurrently by one server               *)
(***************************************************************************)
\* the locals of an invocation of POST that has not started on the request req
NewFrame(req) ==
  [request |-> req, pc |-> "start",
   mode |-> Undefined, query |-> Undefined, vector |-> Undefined,
   top_k_from_request |-> Undefined,
   calls |-> <<>>, replies |-> <<>>, results |-> <<>>, enrich |-> <<>>,
   response |-> NoResponse]

\* the locals an invocation works on are those of one frame for both invocations
FrameOfShared(fs, h) == fs[1]

\* the locals an invocation of POST works on are its own: const and let
\* inside the function body, nothing at module level but TPUF_API_KEY
FrameOf(fs, h) == fs[h]

\* return json(body, {status}) in the frame f
FrameRespond(f, status, body) ==
  [f EXCEPT !.pc = "done", !.response = [status |-> status, body |-> body]]

\* await Promise.all(...map(...)) and return json(resultsWithImages) in the frame f
FrameAwaitImages(f, res, en) ==
  LET g == [f EXCEPT !.results = res, !.enrich = en]
  IN IF AnyThrew(en)
     THEN FrameRespond(g, 500, [error |-> "Internal Server Error",
                                details |-> "url.startsWith is not a function"])
     ELSE IF AllSettled(en)
     THEN FrameRespond(g, 200, Arr([i \in DOMAIN res |-> ResponseItem(res[i], en[i].ogImage)]))
     ELSE [g EXCEPT !.pc = "awaitImages"]

\* results.map(async (result) => ... fetchOgImage(attributes.url) ...) in the frame f
FrameStartImages(f, res) ==
  FrameAwaitImages(f, res, [i \in DOMAIN res |-> StartFetchOgImage(AttributeOf(res[i], "url"))])

\* whether the invocation with frame f is waiting for the event ev
Awaits(f, ev) ==
  CASE ev.kind = "begin" -> f.pc = "start"
    [] ev.kind \in {"queryResolves", "queryRejects"} -> f.pc = "awaitQuery"
    [] ev.kind \in {"subcallResolves", "subcallRejects"} ->
         /\ f.pc \in {"awaitHybrid", "done"}
         /\ Len(f.calls) = 2 /\ f.replies[ev.c] = Pending
    [] ev.kind \in {"fetchResolves", "fetchRejects"} ->
         /\ f.pc = "awaitImages"
         /\ ev.i \in DOMAIN f.enrich /\ f.enrich[ev.i].pc = "fetch"
    [] ev.kind = "timeout" ->
         /\ f.pc = "awaitImages"
         /\ ev.i \in DOMAIN f.enrich /\ f.enrich[ev.i].pc \in {"fetch", "text"}
         /\ ~f.enrich[ev.i].elapsed
    [] ev.kind \in {"textResolves", "textRejects"} ->
         /\ f.pc = "awaitImages"
         /\ ev.i \in DOMAIN f.enrich /\ f.enrich[ev.i].pc = "text"
    [] OTHER -> FALSE

\* POST from its entry to its first await, in the frame f
FrameBegin(key, f) ==
  LET p == ParseRequest(f.request)
      g == [f EXCEPT !.request = Consumed, !.mode = p.mode, !.query = p.query,
                     !.vector = p.vector, !.top_k_from_request = p.top_k]
  IN IF p.error # "" THEN FrameRespond(g, 400, [error |-> p.error])
     ELSE IF CredentialMissing(key)
     THEN FrameRespond(g, 500, [error |-> "Server configuration error"])
     ELSE IF p.mode = Str("hybrid")
     THEN [g EXCEPT !.calls = <<FtsOptions(p.query, p.top_k), VectorOptions(p.vector, p.top_k)>>,
                    !.replies = <<Pending, Pending>>,
                    !.pc = "awaitHybrid"]
     ELSE [g EXCEPT !.calls = <<QueryOptions(p.mode, p.query, p.vector, p.top_k)>>,
                    !.replies = <<Pending>>,
                    !.pc = "awaitQuery"]

\* the continuation of POST that the event ev resumes, in the frame f
Deliver(key, f, ev) ==
  CASE ev.kind = "begin" -> FrameBegin(key, f)
    [] ev.kind = "queryResolves" ->
         LET g == [f EXCEPT !.replies = <<ev.result>>]
         IN IF ev.result.kind = "null"
            THEN FrameRespond(g, 500, [error |-> "Turbopuffer query failed unexpectedly."])
            ELSE IF ev.result.kind = "object"
            THEN FrameRespond(g, 500, [error |-> "Unexpected response format from Turbopuffer"])
            ELSE FrameStartImages(g, ev.result.hits)
    [] ev.kind = "queryRejects" ->
         FrameRespond([f EXCEPT !.replies = <<[kind |-> "throw", message |-> ev.message]>>],
                      500, [error |-> "Internal Server Error", details |-> ev.message])
    [] ev.kind = "subcallResolves" ->
         LET g == [f EXCEPT !.replies[ev.c] = ev.result]
         IN IF f.pc = "awaitHybrid" /\ \A d \in DOMAIN f.replies : d # ev.c => f.replies[d] # Pending
            THEN FrameStartImages(g, SliceTopK(reciprocalRankFusion(g.replies, RRF_K),
                                               f.top_k_from_request))
            ELSE g
    [] ev.kind = "subcallRejects" ->
         LET g == [f EXCEPT !.replies[ev.c] = [kind |-> "throw", message |-> ev.message]]
         IN IF f.pc = "awaitHybrid"
            THEN FrameRespond(g, 500, [error |-> "Internal Server Error", details |-> ev.message])
            ELSE g
    [] ev.kind = "fetchResolves" ->
         FrameAwaitImages(f, f.results,
                          [f.enrich EXCEPT ![ev.i] = AfterFetchResolved(@, ev.ok, ev.contentType)])
    [] ev.kind = "timeout" ->
         FrameAwaitImages(f, f.results,
                          [f.enrich EXCEPT ![ev.i] =
                             IF @.timer = "armed"
                             THEN [AfterCatch(@) EXCEPT !.elapsed = TRUE, !.timer = "fired"]
                             ELSE [@ EXCEPT !.elapsed = TRUE]])
    [] ev.kind = "textResolves" ->
         FrameAwaitImages(f, f.results,
                          [f.enrich EXCEPT ![ev.i] = AfterTextResolved(@, ev.content)])
    [] OTHER ->
         FrameAwaitImages(f, f.results, [f.enrich EXCEPT ![ev.i] = AfterCatch(@)])

\* hits per backend reply in SpecPair
MaxPairHits == 1

\* the requests of SpecPair: a fulltext search, a hybrid search, a fulltext
\* search without query
PairRequests ==
  {req \in Requests :
     /\ req.kind = "object" /\ req.search_type = Undefined /\ req.top_k = Undefined
     /\ \/ req.mode = Str("fulltext") /\ req.query \in {Str("cat"), Str("")} /\ req.vector = Undefined
        \/ req.mode = Str("hybrid") /\ req.query = Str("cat") /\ req.vector = Arr(<<Num(1)>>)}

\* what ns.query can resolve to in SpecPair
PairQueryResults(src) == HitLists({"1", "a"}, src, MaxPairHits) \cup {NullList}

\* the content types and og:image contents of SpecPair
PairContentTypes == {Str("text/html; charset=utf-8"), Str("image/png")}

PairOgContents == {Undefined, Str("https://img/og.png")}

InitPair ==
  /\ rrfPc = "idle" /\ rrfArgs = <<>> /\ rrfOut = <<>>
  /\ TPUF_API_KEY = Str("tpuf_key")
  /\ request = Consumed
  /\ pc = "idle"
  /\ mode = Undefined /\ query = Undefined /\ vector = Undefined
  /\ top_k_from_request = Undefined
  /\ calls = <<>> /\ replies = <<>> /\ results = <<>> /\ enrich = <<>>
  /\ response = NoResponse
  /\ EMBEDDING_API_URL = Undefined /\ PageLoaded
  /\ frames \in {<<NewFrame(a), NewFrame(b)>> : a \in PairRequests, b \in PairRequests}
  /\ alone = frames

\* the frames once the invocation h has been resumed with the event ev
Resume(fs, key, h, ev) == [fs EXCEPT ![h] = Deliver(key, FrameOf(fs, h), ev)]

\* the server calls POST for the request of invocation h
PairBegin(h) ==
  LET ev == [kind |-> "begin", body |-> frames[h].request]
  IN /\ Awaits(FrameOf(frames, h), ev)
     /\ frames' = Resume(frames, TPUF_API_KEY, h, ev)
     /\ alone' = [alone EXCEPT ![h] = Deliver(TPUF_API_KEY, @, ev)]
     /\ UNCHANGED <<serverVars, pageVars>>

\* await ns.query(queryOptions) of invocation h resolves
PairQueryResolves(h, queryResult) ==
  LET ev == [kind |-> "queryResolves", result |-> queryResult]
  IN /\ Awaits(FrameOf(frames, h), ev)
     /\ frames' = Resume(frames, TPUF_API_KEY, h, ev)
     /\ alone' = [alone EXCEPT ![h] = Deliver(TPUF_API_KEY, @, ev)]
     /\ UNCHANGED <<serverVars, pageVars>>

\* await ns.query(queryOptions) of invocation h rejects
PairQueryRejects(h, message) ==
  LET ev == [kind |-> "queryRejects", message |-> message]
  IN /\ Awaits(FrameOf(frames, h), ev)
     /\ frames' = Resume(frames, TPUF_API_KEY, h, ev)
     /\ alone' = [alone EXCEPT ![h] = Deliver(TPUF_API_KEY, @, ev)]
     /\ UNCHANGED <<serverVars, pageVars>>

\* the hybrid sub-call c of invocation h resolves
PairSubcallResolves(h, c, result) ==
  LET ev == [kind |-> "subcallResolves", c |-> c, result |-> result]
  IN /\ Awaits(FrameOf(frames, h), ev)
     /\ frames' = Resume(frames, TPUF_API_KEY, h, ev)
     /\ alone' = [alone EXCEPT ![h] = Deliver(TPUF_API_KEY, @, ev)]
     /\ UNCHANGED <<serverVars, pageVars>>

\* the hybrid sub-call c of invocation h rejects
PairSubcallRejects(h, c, message) ==
  LET ev == [kind |-> "subcallRejects", c |-> c, message |-> message]
  IN /\ Awaits(FrameOf(frames, h), ev)
     /\ frames' = Resume(frames, TPUF_API_KEY, h, ev)
     /\ alone' = [alone EXCEPT ![h] = Deliver(TPUF_API_KEY, @, ev)]
     /\ UNCHANGED <<serverVars, pageVars>>

\* the GET of hit i of invocation h answers
PairFetchResolves(h, i, ok, contentType) ==
  LET ev == [kind |-> "fetchResolves", i |-> i, ok |-> ok, contentType |-> contentType]
  IN /\ Awaits(FrameOf(frames, h), ev)
     /\ frames' = Resume(frames, TPUF_API_KEY, h, ev)
     /\ alone' = [alone EXCEPT ![h] = Deliver(TPUF_API_KEY, @, ev)]
     /\ UNCHANGED <<serverVars, pageVars>>

\* the GET of hit i of invocation h fails
PairFetchRejects(h, i) ==
  LET ev == [kind |-> "fetchRejects", i |-> i]
  IN /\ Awaits(FrameOf(frames, h), ev)
     /\ frames' = Resume(frames, TPUF_API_KEY, h, ev)
     /\ alone' = [alone EXCEPT ![h] = Deliver(TPUF_API_KEY, @, ev)]
     /\ UNCHANGED <<serverVars, pageVars>>

\* 5 seconds have passed since fetchOgImage of hit i of invocation h armed its timer
PairTimeoutElapses(h, i) ==
  LET ev == [kind |-> "timeout", i |-> i]
  IN /\ Awaits(FrameOf(frames, h), ev)
     /\ frames' = Resume(frames, TPUF_API_KEY, h, ev)
     /\ alone' = [alone EXCEPT ![h] = Deliver(TPUF_API_KEY, @, ev)]
     /\ UNCHANGED <<serverVars, pageVars>>

\* the body of the page of hit i of invocation h has arrived
PairTextResolves(h, i, content) ==
  LET ev == [kind |-> "textResolves", i |-> i, content |-> content]
  IN /\ Awaits(FrameOf(frames, h), ev)
     /\ frames' = Resume(frames, TPUF_API_KEY, h, ev)
     /\ alone' = [alone EXCEPT ![h] = Deliver(TPUF_API_KEY, @, ev)]
     /\ UNCHANGED <<serverVars, pageVars>>

\* reading the body of the page of hit i of invocation h fails
PairTextRejects(h, i) ==
  LET ev == [kind |-> "textRejects", i |-> i]
  IN /\ Awaits(FrameOf(frames, h), ev)
     /\ frames' = Resume(frames, TPUF_API_KEY, h, ev)
     /\ alone' = [alone EXCEPT ![h] = Deliver(TPUF_API_KEY, @, ev)]
     /\ UNCHANGED <<serverVars, pageVars>>

NextPair ==
  \/ \E h \in 1..2 : PairBegin(h)
  \/ \E h \in 1..2 : \E queryResult \in PairQueryResults("query") : PairQueryResolves(h, queryResult)
  \/ \E h \in 1..2 : PairQueryRejects(h, "fetch failed")
  \/ \E h \in 1..2 : \E c \in 1..2 : \E result \in PairQueryResults(c) :
       PairSubcallResolves(h, c, result)
  \/ \E h \in 1..2 : \E c \in 1..2 : PairSubcallRejects(h, c, "fetch failed")
  \/ \E h \in 1..2 : \E i \in 1..(2 * MaxPairHits) : \E ok \in BOOLEAN :
       \E contentType \in PairContentTypes : PairFetchResolves(h, i, ok, contentType)
  \/ \E h \in 1..2 : \E i \in 1..(2 * MaxPairHits) : PairFetchRejects(h, i)
  \/ \E h \in 1..2 : \E i \in 1..(2 * MaxPairHits) : PairTimeoutElapses(h, i)
  \/ \E h \in 1..2 : \E i \in 1..(2 * MaxPairHits) : PairTextRejects(h, i)
  \/ \E h \in 1..2 : \E i \in 1..(2 * MaxPairHits) : \E content \in PairOgContents :
       PairTextResolves(h, i, content)

SpecPair == InitPair /\ [][NextPair]_vars

(***************************************************************************)
(* SpecPage: the search page, its debounce timer and its searches          *)
(***************************************************************************)
\* setTimeout(..., 500)
DEBOUNCE_MS == 500

\* the step of the clock
TICK_MS == 250

\* keystrokes and changes of the search type of one run
MaxKeystrokes == 2

MaxTypeChanges == 1

\* what the input box can hold
Terms == {"", "a", "ab"}

SearchTypes == {"semantic", "fulltext", "phrase"}

\* !searchTerm.trim()
IsBlank(term) == Trim(term) = ""

\* the request a search sends to /api/search is made of the term and the type
\* it started with; the body of the 200 answers that request
ResponseTo(search) == <<[id |-> "1", term |-> search.term, mode |-> search.type]>>

\* isLoadingEmbedding = false; isLoadingTurbopuffer = false
NotLoading == isLoadingEmbedding' = FALSE /\ isLoadingTurbopuffer' = FALSE

\* the catch and finally blocks of fetchResults for the call s
Catch(calls_, s, message) ==
  /\ pageError' = Str(message)
  /\ pageResults' = <<>>
  /\ NotLoading
  /\ searchPerformedForCurrentTerm' = TRUE
  /\ searches' = [calls_ EXCEPT ![s].pc = "done", ![s].outcome = "error"]

\* fetchResults from its entry to its first await; via is the timer that
\* called it, Undefined for the reactive block
fetchResults(term, type, via) ==
  LET s == Len(searches) + 1
      call == [term |-> term, type |-> type, via |-> via,
               pc |-> "done", outcome |-> "blank"]
  IN IF IsBlank(term)
     THEN /\ pageResults' = <<>>
          /\ NotLoading
          /\ pageError' = Null
          /\ searchPerformedForCurrentTerm' = FALSE
          /\ searches' = Append(searches, call)
     ELSE IF type = "semantic" /\ ~Truthy(EMBEDDING_API_URL)
     THEN Catch(Append(searches, call), s, "Embedding API URL is not configured.")
     ELSE /\ pageError' = Null
          /\ pageResults' = <<>>
          /\ isLoadingEmbedding' = (type = "semantic")
          /\ isLoadingTurbopuffer' = (type # "semantic")
          /\ searchPerformedForCurrentTerm' = searchPerformedForCurrentTerm
          /\ searches' = Append(searches,
                                [call EXCEPT !.pc = IF type = "semantic" THEN "embed" ELSE "search",
                                             !.outcome = "pending"])

\* clearTimeout(id): a pending timer is cleared, any other id does nothing
ClearTimeout(table, id) ==
  IF id # Undefined /\ table[id.num].state = "pending"
  THEN [table EXCEPT ![id.num].state = "cleared"]
  ELSE table

\* setTimeout(callback, ms): the new timer gets the next id
SetTimeout(table, ms) == Append(table, [left |-> ms, state |-> "pending"])

\* handleInput without the clearTimeout
handleInputNoClear(term) ==
  /\ timers' = SetTimeout(timers, DEBOUNCE_MS)
  /\ debounceTimer' = Num(Len(timers) + 1)
  /\ IF IsBlank(term)
     THEN /\ pageResults' = <<>>
          /\ pageError' = Null
          /\ NotLoading
          /\ searchPerformedForCurrentTerm' = FALSE
     ELSE /\ searchPerformedForCurrentTerm' =
               (searchPerformedForCurrentTerm /\ ~(pageResults = <<>>))
          /\ UNCHANGED <<pageResults, pageError, isLoadingEmbedding, isLoadingTurbopuffer>>

\* handleInput, term being the value bound to searchTerm
handleInput(term) ==
  /\ timers' = SetTimeout(ClearTimeout(timers, debounceTimer), DEBOUNCE_MS)
  /\ debounceTimer' = Num(Len(timers) + 1)
  /\ IF IsBlank(term)
     THEN /\ pageResults' = <<>>
          /\ pageError' = Null
          /\ NotLoading
          /\ searchPerformedForCurrentTerm' = FALSE
     ELSE /\ searchPerformedForCurrentTerm' =
               (searchPerformedForCurrentTerm /\ ~(pageResults = <<>>))
          /\ UNCHANGED <<pageResults, pageError, isLoadingEmbedding, isLoadingTurbopuffer>>

InitPage ==
  /\ rrfPc = "idle" /\ rrfArgs = <<>> /\ rrfOut = <<>>
  /\ HandlerIdle
  /\ EMBEDDING_API_URL \in {Undefined, Str("https://embed/")}
  /\ PageLoaded
  /\ frames = <<>> /\ alone = <<>>

\* the user changes the content of the input box: bind:value assigns
\* searchTerm and on:input calls handleInput
Keystroke(term) ==
  /\ Len(timers) < MaxKeystrokes
  /\ term # searchTerm
  /\ searchTerm' = term
  /\ handleInput(term)
  /\ UNCHANGED <<serverVars, pairVars, EMBEDDING_API_URL, searchType, previousSearchType,
                 typeChanges, searches>>

\* TICK_MS milliseconds pass: every pending timer has that much less to wait
Tick ==
  /\ timers' = [t \in DOMAIN timers |->
                  IF timers[t].state = "pending" /\ timers[t].left > 0
                  THEN [timers[t] EXCEPT !.left = @ - TICK_MS]
                  ELSE timers[t]]
  /\ UNCHANGED <<serverVars, pairVars, EMBEDDING_API_URL, searchTerm, searchType, previousSearchType,
                 pageResults, isLoadingEmbedding, isLoadingTurbopuffer, pageError,
                 debounceTimer, searchPerformedForCurrentTerm, typeChanges, searches>>

\* the browser runs the callback of a pending timer that is due
TimerFires(t) ==
  /\ t \in DOMAIN timers
  /\ timers[t].state = "pending" /\ timers[t].left = 0
  /\ timers' = [timers EXCEPT ![t].state = "fired"]
  /\ fetchResults(searchTerm, searchType, Num(t))
  /\ UNCHANGED <<serverVars, pairVars, EMBEDDING_API_URL, searchTerm, searchType, previousSearchType,
                 debounceTimer, typeChanges>>

\* the user picks another search type: bind:group assigns searchType and the
\* reactive block runs
TypeChanges(type) ==
  /\ type # searchType
  /\ typeChanges < MaxTypeChanges
  /\ typeChanges' = typeChanges + 1
  /\ searchType' = type
  /\ previousSearchType' = type
  /\ IF ~IsBlank(searchTerm)
     THEN fetchResults(searchTerm, type, Undefined)
     ELSE UNCHANGED <<pageResults, isLoadingEmbedding, isLoadingTurbopuffer, pageError,
                      searchPerformedForCurrentTerm, searches>>
  /\ UNCHANGED <<serverVars, pairVars, EMBEDDING_API_URL, searchTerm, debounceTimer, timers>>

\* what the embedding endpoint can answer: a vector, a status that is not
\* ok, or a body without embedding
EmbedOutcomes == {"vector", "notOk", "noVector"}

\* EmbedResolves leaving isLoadingEmbedding as it is when the vector has arrived
EmbedResolvesStillEmbedding(s, outcome) ==
  /\ s \in DOMAIN searches /\ searches[s].pc = "embed"
  /\ CASE outcome = "vector" ->
            /\ isLoadingTurbopuffer' = TRUE
            /\ searches' = [searches EXCEPT ![s].pc = "search"]
            /\ UNCHANGED <<isLoadingEmbedding, pageResults, pageError,
                           searchPerformedForCurrentTerm>>
       [] outcome = "notOk" -> Catch(searches, s, "Embedding failed: Bad Gateway")
       [] OTHER -> Catch(searches, s, "Failed to retrieve embedding vector.")
  /\ UNCHANGED <<serverVars, pairVars, EMBEDDING_API_URL, searchTerm, searchType, previousSearchType,
                 debounceTimer, timers, typeChanges>>

\* await fetch(EMBEDDING_API_URL, ...) of the call s resolves and its body is read
EmbedResolves(s, outcome) ==
  /\ s \in DOMAIN searches /\ searches[s].pc = "embed"
  /\ CASE outcome = "vector" ->
            /\ isLoadingEmbedding' = FALSE
            /\ isLoadingTurbopuffer' = TRUE
            /\ searches' = [searches EXCEPT ![s].pc = "search"]
            /\ UNCHANGED <<pageResults, pageError, searchPerformedForCurrentTerm>>
       [] outcome = "notOk" -> Catch(searches, s, "Embedding failed: Bad Gateway")
       [] OTHER -> Catch(searches, s, "Failed to retrieve embedding vector.")
  /\ UNCHANGED <<serverVars, pairVars, EMBEDDING_API_URL, searchTerm, searchType, previousSearchType,
                 debounceTimer, timers, typeChanges>>

\* await fetch(EMBEDDING_API_URL, ...) of the call s rejects
EmbedRejects(s) ==
  /\ s \in DOMAIN searches /\ searches[s].pc = "embed"
  /\ Catch(searches, s, "Failed to fetch")
  /\ UNCHANGED <<serverVars, pairVars, EMBEDDING_API_URL, searchTerm, searchType, previousSearchType,
                 debounceTimer, timers, typeChanges>>

\* await fetch('/api/search', ...) of the call s resolves and its body is read
SearchResolves(s, ok) ==
  /\ s \in DOMAIN searches /\ searches[s].pc = "search"
  /\ IF ok
     THEN /\ pageResults' = ResponseTo(searches[s])
          /\ NotLoading
          /\ searchPerformedForCurrentTerm' = TRUE
          /\ searches' = [searches EXCEPT ![s].pc = "done", ![s].outcome = "ok"]
          /\ UNCHANGED pageError
     ELSE Catch(searches, s, "Internal Server Error")
  /\ UNCHANGED <<serverVars, pairVars, EMBEDDING_API_URL, searchTerm, searchType, previousSearchType,
                 debounceTimer, timers, typeChanges>>

\* await fetch('/api/search', ...) of the call s rejects
SearchRejects(s) ==
  /\ s \in DOMAIN searches /\ searches[s].pc = "search"
  /\ Catch(searches, s, "Failed to fetch")
  /\ UNCHANGED <<serverVars, pairVars, EMBEDDING_API_URL, searchTerm, searchType, previousSearchType,
                 debounceTimer, timers, typeChanges>>

\* the calls of fetchResults one run can make
MaxCalls == MaxKeystrokes + MaxTypeChanges

NextPage ==
  \/ \E term \in Terms : Keystroke(term)
  \/ Tick
  \/ \E t \in 1..MaxKeystrokes : TimerFires(t)
  \/ \E type \in SearchTypes : TypeChanges(type)
  \/ \E s \in 1..MaxCalls : \E outcome \in EmbedOutcomes : EmbedResolves(s, outcome)
  \/ \E s \in 1..MaxCalls : EmbedRejects(s)
  \/ \E s \in 1..MaxCalls : \E ok \in BOOLEAN : SearchResolves(s, ok)
  \/ \E s \in 1..MaxCalls : SearchRejects(s)

SpecPage == InitPage /\ [][NextPage]_vars

(***************************************************************************)
(* Properties of reciprocalRankFusion (SpecFuse)                           *)
(***************************************************************************)
\* the ids that occur in the array lists of an argument
IdsOfList(list) ==
  IF list.kind = "array" THEN {list.hits[r].id : r \in DOMAIN list.hits} \ {NoId} ELSE {}

IdsOfLists(resultLists) == UNION {IdsOfList(resultLists[i]) : i \in DOMAIN resultLists}

\* 1-based rank of id in a list that contains it
RankIn(list, id) == CHOOSE r \in DOMAIN list.hits : list.hits[r].id = id

\* 1/(60 + rank) when the list contains id, 0 otherwise
ContributionOf(list, id) ==
  IF id \in IdsOfList(list) THEN Frac(1, 60 + RankIn(list, id)) ELSE FracZero

RECURSIVE SumOfContributions(_, _, _)
SumOfContributions(resultLists, id, i) ==
  IF i > Len(resultLists) THEN FracZero
  ELSE FracAdd(ContributionOf(resultLists[i], id), SumOfContributions(resultLists, id, i + 1))

\* index of the first occurrence of id when the lists are scanned in order
RECURSIVE Concatenated(_, _)
Concatenated(resultLists, i) ==
  IF i > Len(resultLists) THEN <<>>
  ELSE (IF resultLists[i].kind = "array"
        THEN [r \in DOMAIN resultLists[i].hits |-> resultLists[i].hits[r].id]
        ELSE <<>>) \o Concatenated(resultLists, i + 1)

FirstEncounter(resultLists, id) ==
  LET all == Concatenated(resultLists, 1)
  IN CHOOSE p \in DOMAIN all : all[p] = id /\ \A q \in 1..(p - 1) : all[q] # id

\* C1: after reciprocalRankFusion(lists, 60) every id of the input lists is
\* returned exactly once, nothing else is returned, each id's score is the sum
\* over the lists containing it of 1/(60 + rank), and an id at rank 1 in two
\* lists scores 2/61.
C1_FusionScores ==
  rrfPc = "return" =>
    /\ \A id \in IdsOfLists(rrfArgs) :
         Cardinality({i \in DOMAIN rrfOut : rrfOut[i].id = id}) = 1
    /\ \A i \in DOMAIN rrfOut :
         /\ rrfOut[i].id \in IdsOfLists(rrfArgs)
         /\ rrfOut[i].dist = SumOfContributions(rrfArgs, rrfOut[i].id, 1)
         /\ (/\ Len(rrfArgs) = 2
             /\ \A l \in 1..2 : rrfOut[i].id \in IdsOfList(rrfArgs[l])
                                  /\ RankIn(rrfArgs[l], rrfOut[i].id) = 1)
              => rrfOut[i].dist = [n |-> 2, d |-> 61]

\* C1 witness: two lists were fused, one id is first in both, another id is
\* in both at different ranks and a third is in one list only.
C1_Witness ==
  /\ rrfPc = "return"
  /\ Len(rrfArgs) = 2
  /\ \E x, y, z \in IdsOfLists(rrfArgs) :
       /\ x \in IdsOfList(rrfArgs[1]) /\ x \in IdsOfList(rrfArgs[2])
       /\ RankIn(rrfArgs[1], x) = 1 /\ RankIn(rrfArgs[2], x) = 1
       /\ y \in IdsOfList(rrfArgs[1]) /\ y \in IdsOfList(rrfArgs[2])
       /\ RankIn(rrfArgs[1], y) # RankIn(rrfArgs[2], y)
       /\ z \in IdsOfList(rrfArgs[1]) /\ z \notin IdsOfList(rrfArgs[2])
       /\ \E i \in DOMAIN rrfOut : rrfOut[i].id = x /\ rrfOut[i].dist = [n |-> 2, d |-> 61]

\* C8: the sequence returned by reciprocalRankFusion is ordered by
\* non-increasing fusion score.
C8_NonIncreasing ==
  rrfPc = "return" =>
    \A i, j \in DOMAIN rrfOut : i < j => ~FracLess(rrfOut[i].dist, rrfOut[j].dist)

\* C8 witness: a fusion whose best id was not the first property created, so
\* the sort had to move it.
C8_Witness ==
  /\ rrfPc = "return"
  /\ Len(rrfOut) >= 3
  /\ FirstEncounter(rrfArgs, rrfOut[1].id) > 1
  /\ FracLess(rrfOut[3].dist, rrfOut[1].dist)

\* C9 as stated: ids with equal fusion score appear in first-encounter order,
\* whatever the kind of id.
C9_EncounterOrder ==
  rrfPc = "return" =>
    \A i, j \in DOMAIN rrfOut :
      (i < j /\ rrfOut[i].dist = rrfOut[j].dist)
        => FirstEncounter(rrfArgs, rrfOut[i].id) < FirstEncounter(rrfArgs, rrfOut[j].id)

\* C9 amended: ids with equal fusion score appear in property order of the
\* scores object: integer-like ids first, in ascending numeric order, then the
\* other ids in first-encounter order.
C9_PropertyOrder ==
  rrfPc = "return" =>
    \A i, j \in DOMAIN rrfOut :
      (i < j /\ rrfOut[i].dist = rrfOut[j].dist)
        => LET a == rrfOut[i].id
               b == rrfOut[j].id
           IN \/ KeyIndex(a) >= 0 /\ KeyIndex(b) >= 0 /\ KeyIndex(a) < KeyIndex(b)
              \/ KeyIndex(a) >= 0 /\ KeyIndex(b) < 0
              \/ /\ KeyIndex(a) < 0 /\ KeyIndex(b) < 0
                 /\ FirstEncounter(rrfArgs, a) < FirstEncounter(rrfArgs, b)

\* C9 witness: a fusion with two ties, one between integer-like ids met in
\* descending order and one between other ids.
C9_Witness ==
  /\ rrfPc = "return"
  /\ \E i, j \in DOMAIN rrfOut :
       /\ i < j /\ rrfOut[i].dist = rrfOut[j].dist
       /\ KeyIndex(rrfOut[i].id) >= 0 /\ KeyIndex(rrfOut[j].id) >= 0
       /\ FirstEncounter(rrfArgs, rrfOut[j].id) < FirstEncounter(rrfArgs, rrfOut[i].id)
  /\ \E i, j \in DOMAIN rrfOut :
       /\ i < j /\ rrfOut[i].dist = rrfOut[j].dist
       /\ KeyIndex(rrfOut[i].id) < 0 /\ KeyIndex(rrfOut[j].id) < 0

(***************************************************************************)
(* Properties of POST (Spec)                                               *)
(***************************************************************************)
\* the mode a request asks for
EffectiveMode(req) == Or(Or(req.mode, req.search_type), Str("fulltext"))

\* a query that is missing, not a string or made of whitespace only
QueryIsInvalid(q) == q \in {Undefined, Null, Num(5), Str(""), Str("  ")}

\* a vector that is missing or not an array of numbers
VectorIsInvalid(v) == v \in {Undefined, Str("0.1"), Arr(<<Str("x")>>)}

\* the requests that fail validation for their mode
FailsValidation(req) ==
  \/ req.kind = "unparseable"
  \/ /\ req.kind = "object"
     /\ \/ /\ EffectiveMode(req) \in {Str("fulltext"), Str("phrase"), Str("hybrid")}
           /\ QueryIsInvalid(req.query)
        \/ /\ EffectiveMode(req) \in {Str("semantic"), Str("hybrid")}
           /\ VectorIsInvalid(req.vector)

NoFetchIssued == \A i \in DOMAIN enrich : ~enrich[i].fetched

\* C2: a request that fails validation for its mode is answered with 400, and
\* a 400 response comes with zero backend calls and zero enrichment fetches.
C2_ValidationRejects ==
  /\ [][(pc = "start" /\ FailsValidation(request))
          => (response'.status = 400 /\ calls' = <<>> /\ enrich' = <<>>)]_vars
  /\ [](response.status = 400 => (calls = <<>> /\ NoFetchIssued))

\* C2 witness: a hybrid request without a vector was rejected with 400 while
\* the credential was configured, and no call was made.
C2_Witness ==
  /\ response.status = 400
  /\ response.body = [error |-> "Hybrid search requires a valid vector"]
  /\ vector = Undefined
  /\ Truthy(TPUF_API_KEY)
  /\ calls = <<>> /\ enrich = <<>>

\* C3: in hybrid mode, once a sub-call has failed the response is a 500 that
\* carries an error and no results, whichever sub-call failed and whatever the
\* other one did, and no hit was kept or enriched.
C3_HybridFailsAsUnit ==
  (Len(calls) = 2 /\ \E c \in DOMAIN replies : replies[c].kind = "throw") =>
    /\ response.status = 500
    /\ DOMAIN response.body = {"error", "details"}
    /\ results = <<>>
    /\ enrich = <<>>

\* C3 witness: the full-text sub-call failed and the vector sub-call returned
\* hits; the response is the 500.
C3_Witness ==
  /\ Len(calls) = 2
  /\ replies[1].kind = "throw"
  /\ replies[2].kind = "array" /\ Len(replies[2].hits) = 2
  /\ response.status = 500

\* the response lists the hits of results in order, each with the image its
\* enrichment returned
InOrder(resp, res, en) ==
  /\ IsArray(resp.body)
  /\ Len(resp.body.arr) = Len(res)
  /\ \A i \in DOMAIN res :
       /\ resp.body.arr[i].id = res[i].id
       /\ resp.body.arr[i].ogImage = en[i].ogImage
       /\ resp.body.arr[i].ogImage = Null \/ IsString(resp.body.arr[i].ogImage)

\* C4: once the result list is final the request can only end with a 200
\* that lists the same results in the same order; a step that settles one
\* enrichment leaves the result list and every other enrichment as they were,
\* a failed enrichment gives null, and a page with an absolute og:image gives
\* that image.
C4_EnrichmentContained ==
  /\ [](response.status = 200 => InOrder(response, results, enrich))
  /\ [][pc = "awaitImages" =>
          /\ results' = results
          /\ \/ pc' = "awaitImages" /\ response' = NoResponse
             \/ pc' = "done" /\ response'.status = 200
          /\ \A i, j \in DOMAIN enrich :
               i # j => (enrich'[i] = enrich[i] \/ enrich'[j] = enrich[j])
          /\ \A i \in DOMAIN enrich :
               /\ enrich[i].pc = "done" => enrich'[i] = enrich[i]
               /\ (FetchRejects(i) \/ TextRejects(i)
                     \/ (TimeoutElapses(i) /\ enrich[i].timer = "armed")
                     \/ FetchResolves(i, FALSE, Str("text/html; charset=utf-8"))
                     \/ FetchResolves(i, TRUE, Str("image/png"))
                     \/ TextResolves(i, Undefined)
                     \/ TextResolves(i, Str("/og.png")))
                    => enrich'[i].pc = "done" /\ enrich'[i].ogImage = Null
               /\ TextResolves(i, Str("https://img/og.png"))
                    => enrich'[i].ogImage = Str("https://img/og.png")]_vars

\* C4 witness: a 200 response with two results, the first enrichment timed
\* out and gave null, the second gave an image.
C4_Witness ==
  /\ response.status = 200
  /\ Len(results) = 2
  /\ enrich[1].timer = "fired" /\ response.body.arr[1].ogImage = Null
  /\ response.body.arr[2].ogImage = Str("https://img/og.png")

\* the top_k in force for a request
EffectiveTopK == IF top_k_from_request = Undefined THEN 20 ELSE top_k_from_request.num

\* C5 as stated: a hybrid response has at most top_k results, top_k being 20
\* when the request has none, and a request without top_k issues every
\* backend call with top_k = 20.
C5_DefaultTopK ==
  /\ (mode = Str("hybrid") /\ response.status = 200)
       => Len(response.body.arr) <= EffectiveTopK
  /\ top_k_from_request = Undefined
       => \A c \in DOMAIN calls : calls[c].top_k = Num(20)

\* fusion score of an id for the two lists the sub-calls returned
FusionScore(id) == SumOfContributions(replies, id, 1)

\* C6: a hybrid request with a positive top_k whose sub-calls both returned
\* lists is answered with min(top_k, number of distinct ids) results, no id
\* twice, the first entries of the fused ranking, and no omitted id has a
\* strictly higher fusion score than a returned one.
C6_HybridTruncation ==
  (/\ mode = Str("hybrid") /\ response.status = 200
   /\ top_k_from_request # Undefined /\ top_k_from_request.num >= 1
   /\ \A c \in DOMAIN replies : replies[c].kind = "array") =>
    LET returned == response.body.arr
        all == IdsOfLists(replies)
        n == IF top_k_from_request.num < Cardinality(all)
             THEN top_k_from_request.num ELSE Cardinality(all)
    IN /\ Len(returned) = n
       /\ \A i, j \in DOMAIN returned : i # j => returned[i].id # returned[j].id
       /\ \A i \in DOMAIN returned : returned[i].id = rrfOut[i].id
       /\ \A i \in DOMAIN returned :
            \A o \in all \ {returned[j].id : j \in DOMAIN returned} :
              ~FracLess(FusionScore(returned[i].id), FusionScore(o))

\* C6 witness: full-text returned [x, y], vector returned [y, x], top_k = 1,
\* and the response has exactly one of the two.
C6_Witness ==
  /\ mode = Str("hybrid") /\ response.status = 200
  /\ top_k_from_request = Num(1)
  /\ \A c \in DOMAIN replies : replies[c].kind = "array" /\ Len(replies[c].hits) = 2
  /\ replies[1].hits[1].id = replies[2].hits[2].id
  /\ replies[1].hits[2].id = replies[2].hits[1].id
  /\ Len(response.body.arr) = 1
  /\ response.body.arr[1].id \in IdsOfLists(replies)

\* C7 as stated: once 5 seconds have passed since an enrichment armed its
\* timer, that enrichment has settled.
C7_EnrichmentSettles ==
  \A i \in DOMAIN enrich : enrich[i].elapsed => enrich[i].pc = "done"

\* C10 as stated, for a server whose credential is configured: a semantic or
\* hybrid request whose vector is an empty array is rejected with 400 and no
\* backend call is made.
C10_EmptyVectorRejected ==
  (/\ pc # "start"
   /\ Truthy(TPUF_API_KEY)
   /\ mode \in {Str("semantic"), Str("hybrid")}
   /\ vector = Arr(<<>>)) =>
    (response.status = 400 /\ calls = <<>>)

\* the four supported modes
SupportedModes == {Str("semantic"), Str("fulltext"), Str("phrase"), Str("hybrid")}

\* C11 as stated, for a server whose credential is configured: a request
\* whose mode field is present with a value other than the four supported
\* modes is rejected with 400 and no backend call is made.
C11_UnsupportedModeRejected ==
  [][(/\ pc = "start"
      /\ Truthy(TPUF_API_KEY)
      /\ request.kind = "object"
      /\ request.mode # Undefined
      /\ request.mode \notin SupportedModes)
        => (response'.status = 400 /\ calls' = <<>>)]_vars

\* a request that satisfies the data model for its mode
IsValidRequest(req) ==
  /\ req.kind = "object"
  /\ EffectiveMode(req) \in SupportedModes
  /\ ~FailsValidation(req)
  /\ EffectiveMode(req) \in {Str("semantic"), Str("hybrid")} => req.vector # Arr(<<>>)

\* C12: when the credential is absent a valid request is answered with 500,
\* and with an absent credential no backend call and no enrichment fetch is
\* ever made.
C12_MissingCredential ==
  /\ [][(pc = "start" /\ ~Truthy(TPUF_API_KEY) /\ IsValidRequest(request))
          => (response'.status = 500 /\ calls' = <<>> /\ enrich' = <<>>)]_vars
  /\ [](~Truthy(TPUF_API_KEY) => (calls = <<>> /\ NoFetchIssued))

\* C12 witness: a hybrid request that passed validation was answered with the
\* configuration error, without any call.
C12_Witness ==
  /\ ~Truthy(TPUF_API_KEY)
  /\ mode = Str("hybrid") /\ query = Str("cat") /\ vector = Arr(<<Num(1)>>)
  /\ response = [status |-> 500, body |-> [error |-> "Server configuration error"]]
  /\ calls = <<>> /\ enrich = <<>>

\* C13: a request answered with 200 has issued exactly one backend call in
\* semantic, fulltext and phrase mode and exactly two in hybrid mode; no
\* request issues more than two calls and no call is added once the first
\* await on the backend has begun.
C13_CallCount ==
  /\ [](response.status = 200 => Len(calls) = IF mode = Str("hybrid") THEN 2 ELSE 1)
  /\ [](Len(calls) <= 2 /\ (mode # Str("hybrid") => Len(calls) <= 1))
  /\ [][calls # <<>> => calls' = calls]_vars

\* C13 witness: a hybrid request with results was answered with 200 after two
\* calls.
C13_Witness ==
  /\ mode = Str("hybrid") /\ response.status = 200
  /\ Len(calls) = 2 /\ Len(results) >= 2

IsBM25Call(call, q) ==
  /\ call.rank_by = <<"title", "BM25", q>>
  /\ call.vector = Undefined /\ call.filters = Undefined

IsVectorCall(call, v) ==
  /\ call.vector = v
  /\ call.rank_by = Undefined /\ call.filters = Undefined

IsPhraseCall(call, q) ==
  /\ call.filters = [title |-> <<"ContainsAllTokens", q>>]
  /\ call.rank_by = Undefined /\ call.vector = Undefined

\* C14: every backend call carries only the fields of its own query shape: a
\* BM25 call has rank_by on title and no vector and no filters, a vector call
\* has the vector and no rank_by and no filters, a phrase call has the title
\* ContainsAllTokens filter and no rank_by and no vector.
C14_CallShapes ==
  \A c \in DOMAIN calls :
    /\ mode = Str("semantic") => IsVectorCall(calls[c], vector)
    /\ mode = Str("fulltext") => IsBM25Call(calls[c], query)
    /\ mode = Str("phrase") => IsPhraseCall(calls[c], query)
    /\ mode = Str("hybrid") => IF c = 1 THEN IsBM25Call(calls[c], query)
                                       ELSE IsVectorCall(calls[c], vector)
    /\ mode \in SupportedModes

\* C14 witness: a semantic call was issued with its vector and no rank_by.
C14_Witness ==
  /\ mode = Str("semantic")
  /\ Len(calls) = 1
  /\ calls[1].vector = Arr(<<Num(1)>>)
  /\ calls[1].rank_by = Undefined /\ calls[1].filters = Undefined

\* C15 as stated: every vector-similarity backend call specifies cosine
\* distance as its distance metric.
C15_CosineDistance ==
  \A c \in DOMAIN calls :
    calls[c].vector # Undefined => calls[c].distance_metric = Str("cosine_distance")

SingleCallModes == {Str("semantic"), Str("fulltext"), Str("phrase")}

\* C16: in semantic, fulltext and phrase mode a 200 response has exactly one
\* entry per backend hit, in the order the backend returned them, and every
\* entry has an ogImage that is a string or null.
C16_OneEntryPerHit ==
  (mode \in SingleCallModes /\ response.status = 200) =>
    /\ Len(response.body.arr) = Len(replies[1].hits)
    /\ \A i \in DOMAIN response.body.arr :
         /\ response.body.arr[i].id = replies[1].hits[i].id
         /\ "ogImage" \in DOMAIN response.body.arr[i]
         /\ response.body.arr[i].ogImage = Null \/ IsString(response.body.arr[i].ogImage)

\* C16 witness: the backend returned hits "2", "1"; the enrichment of the
\* first timed out after that of the second had returned an image, and the
\* response lists "2", "1".
C16_Witness ==
  /\ mode \in SingleCallModes /\ response.status = 200
  /\ Len(replies[1].hits) = 2
  /\ replies[1].hits[1].id = "2" /\ replies[1].hits[2].id = "1"
  /\ enrich[1].timer = "fired" /\ ~enrich[2].elapsed
  /\ response.body.arr[1].id = "2" /\ response.body.arr[1].ogImage = Null
  /\ response.body.arr[2].id = "1" /\ IsString(response.body.arr[2].ogImage)

\* C17: an enrichment fetch exists only once every backend call of the request
\* has been answered and, in hybrid mode, the fusion has returned and results
\* is the truncated head of its output; a 200 response exists only once every
\* enrichment has settled.
C17_StageOrder ==
  /\ (\E i \in DOMAIN enrich : enrich[i].fetched) =>
       /\ \A c \in DOMAIN replies : replies[c] # Pending
       /\ mode = Str("hybrid") =>
            /\ rrfPc = "return"
            /\ Len(results) <= Len(rrfOut)
            /\ \A i \in DOMAIN results : results[i] = rrfOut[i]
            /\ top_k_from_request \in {Num(n) : n \in 1..MaxTopK}
                 => Len(results) <= top_k_from_request.num
  /\ response.status = 200 =>
       /\ Len(enrich) = Len(results)
       /\ \A i \in DOMAIN enrich : enrich[i].pc = "done"

\* C17 witness: a hybrid request is waiting for two enrichment fetches, one
\* of them settled, and has not answered.
C17_Witness ==
  /\ mode = Str("hybrid") /\ pc = "awaitImages"
  /\ Len(enrich) = 2
  /\ enrich[1].fetched /\ enrich[1].pc = "done"
  /\ enrich[2].fetched /\ enrich[2].pc = "text"
  /\ response = NoResponse

\* C18: the two hybrid sub-calls are issued in one step, both unanswered;
\* the fusion has run only when both are answered, and its first input is the
\* list of the full-text call and its second that of the vector call,
\* whichever was answered first.
C18_HybridJoin ==
  /\ [][(calls = <<>> /\ calls' # <<>> /\ mode' = Str("hybrid"))
          => (Len(calls') = 2 /\ replies' = <<Pending, Pending>>)]_vars
  /\ [](rrfPc = "return" =>
          /\ \A c \in DOMAIN replies : replies[c] \notin {Pending} /\ replies[c].kind # "throw"
          /\ calls[1].rank_by # Undefined /\ calls[2].vector # Undefined
          /\ rrfArgs = <<replies[1], replies[2]>>
          /\ \A l \in 1..2 : rrfArgs[l].kind = "array" =>
               \A r \in DOMAIN rrfArgs[l].hits : rrfArgs[l].hits[r].src = l)
  /\ [][(rrfPc = "return") => UNCHANGED rrfVars]_vars

\* C18 witness: the fusion ran on two different non-empty lists.
C18_Witness ==
  /\ rrfPc = "return" /\ pc # "idle"
  /\ rrfArgs[1].kind = "array" /\ rrfArgs[2].kind = "array"
  /\ Len(rrfArgs[1].hits) = 2 /\ Len(rrfArgs[2].hits) = 2
  /\ rrfArgs[1].hits[1].id # rrfArgs[2].hits[1].id

(***************************************************************************)
(* Properties of fetchOgImage (SpecEnrich)                                 *)
(***************************************************************************)
\* the strings that begin with the scheme http:// or https://
BeginsWithHttpScheme(s) == s \in {"http://h/1", "https://h/2", "https://img/og.png"}

\* C19 as stated: fetchOgImage never raises, and for a url that is absent,
\* empty or does not begin with http:// or https:// it returns null without
\* calling fetch.
C19_InvalidUrlSkipped ==
  \A i \in DOMAIN enrich :
    /\ enrich[i].pc # "threw"
    /\ LET url == results[i].attributes.url
       IN (~IsString(url) \/ url.str = "" \/ ~BeginsWithHttpScheme(url.str))
            => (~enrich[i].fetched /\ enrich[i].pc = "done" /\ enrich[i].ogImage = Null)

\* C20 as stated: fetchOgImage goes on to read the page only after a
\* successful status with an HTML content type, and it returns a non-null
\* value only when the og:image content begins with http:// or https://, in
\* which case it returns that content; such a page always gives its content.
C20_OgImageResult ==
  [][\A i \in DOMAIN enrich :
       /\ (enrich[i].pc = "fetch" /\ enrich'[i].pc = "text")
            => FetchResolves(i, TRUE, Str("text/html; charset=utf-8"))
       /\ (enrich[i].pc # "done" /\ enrich'[i].pc = "done" /\ enrich'[i].ogImage # Null)
            => \E content \in {c \in EnrichOgContents : IsString(c)} :
                 /\ TextResolves(i, content)
                 /\ BeginsWithHttpScheme(content.str)
                 /\ enrich'[i].ogImage = content
       /\ \A content \in {c \in EnrichOgContents : IsString(c)} :
            (TextResolves(i, content) /\ BeginsWithHttpScheme(content.str))
              => enrich'[i].ogImage = content]_vars

(***************************************************************************)
(* Properties of reciprocalRankFusion, continued (SpecFuse)                *)
(***************************************************************************)
\* a list that is null or has no hits
IsEmptyOrNull(list) == list.kind # "array" \/ list.hits = <<>>

\* C23: a null or empty input list contributes nothing: every returned hit
\* has an id of a non-empty input list, fusing only null or empty lists
\* returns the empty sequence, and fusing a list with a null or empty list
\* returns what fusing that list alone returns.
C23_NullListsTolerated ==
  rrfPc = "return" /\ pc = "idle" =>
    /\ \A j \in DOMAIN rrfOut : rrfOut[j].id \in IdsOfLists(rrfArgs)
    /\ (\A i \in DOMAIN rrfArgs : IsEmptyOrNull(rrfArgs[i])) => rrfOut = <<>>
    /\ \A i \in DOMAIN rrfArgs :
         (Len(rrfArgs) = 2 /\ IsEmptyOrNull(rrfArgs[i])) =>
           rrfOut = reciprocalRankFusion(<<rrfArgs[3 - i]>>, RRF_K)

\* C23 witness: a null list was fused with a list of two hits, and the two
\* hits came back.
C23_Witness ==
  /\ rrfPc = "return" /\ pc = "idle"
  /\ Len(rrfArgs) = 2
  /\ rrfArgs[1] = NullList
  /\ rrfArgs[2].kind = "array" /\ Len(rrfArgs[2].hits) = 2
  /\ Len(rrfOut) = 2

\* the hits of a list that carry an id, in the order of the list
HitsWithId(list) == SelectSeq(list.hits, LAMBDA item : item.id # NoId)

\* C24: fusing the single list A returns the hits of A that carry an id in
\* exactly the order of A, the hit at rank r with score 1/(60 + r), so that
\* the scores strictly decrease along the result.
C24_SingleListOrder ==
  (rrfPc = "return" /\ pc = "idle" /\ Len(rrfArgs) = 1 /\ rrfArgs[1].kind = "array") =>
    LET A == rrfArgs[1]
        kept == HitsWithId(A)
    IN /\ Len(rrfOut) = Len(kept)
       /\ \A j \in DOMAIN rrfOut :
            /\ rrfOut[j].id = kept[j].id
            /\ rrfOut[j].attributes = kept[j].attributes
            /\ rrfOut[j].dist = Frac(1, 60 + RankIn(A, kept[j].id))
       /\ \A j \in 1..(Len(rrfOut) - 1) : FracLess(rrfOut[j + 1].dist, rrfOut[j].dist)

\* C24 witness: the list 2, a, 1, whose property order differs from its own
\* order, came back as 2, a, 1.
C24_Witness ==
  /\ rrfPc = "return" /\ pc = "idle"
  /\ Len(rrfArgs) = 1 /\ rrfArgs[1].kind = "array"
  /\ Len(rrfArgs[1].hits) = 3
  /\ rrfArgs[1].hits[1].id = "2" /\ rrfArgs[1].hits[2].id = "a" /\ rrfArgs[1].hits[3].id = "1"
  /\ Len(rrfOut) = 3 /\ rrfOut[1].id = "2" /\ rrfOut[3].id = "1"

(***************************************************************************)
(* Properties of POST, continued (Spec)                                    *)
(***************************************************************************)
\* the backend calls that have thrown
Thrown == {c \in DOMAIN replies : replies[c].kind = "throw"}

\* C21: once a backend call has thrown, the response is the 500 whose body
\* has the error field and a details field equal to the message of a call
\* that threw (of the only one when one threw), no result was kept and no
\* enrichment fetch was started.
C21_BackendErrorSurfaced ==
  Thrown # {} =>
    /\ pc = "done"
    /\ response.status = 500
    /\ response.body.error = "Internal Server Error"
    /\ \E c \in Thrown : response.body.details = replies[c].message
    /\ results = <<>>
    /\ enrich = <<>>
    /\ NoFetchIssued

\* C21 witness: the single call of a phrase search failed at the network
\* level and the 500 carries that message.
C21_Witness ==
  /\ mode = Str("phrase")
  /\ Len(replies) = 1 /\ replies[1].kind = "throw"
  /\ replies[1].message = "fetch failed"
  /\ response.status = 500
  /\ response.body.details = "fetch failed"

\* index of the last list of the argument that contains id
LastListWith(resultLists, id) ==
  CHOOSE i \in DOMAIN resultLists :
    /\ id \in IdsOfList(resultLists[i])
    /\ \A j \in DOMAIN resultLists : id \in IdsOfList(resultLists[j]) => j <= i

\* C28: every hit reciprocalRankFusion returns is, apart from its dist, the
\* object that the last input list containing its id holds for it; in hybrid
\* mode the lists are the full-text and the vector reply in this order, so an
\* id both sub-calls returned comes back as the vector sub-call's hit.
C28_LastListWins ==
  rrfPc = "return" =>
    /\ \A j \in DOMAIN rrfOut :
         LET id == rrfOut[j].id
             last == rrfArgs[LastListWith(rrfArgs, id)]
             item == last.hits[RankIn(last, id)]
         IN /\ rrfOut[j] = [item EXCEPT !.dist = rrfOut[j].dist]
            /\ (Len(calls) = 2 /\ id \in IdsOfList(replies[2])) =>
                  /\ IsVectorCall(calls[2], vector)
                  /\ rrfOut[j].src = 2

\* C28 witness: both sub-calls of a hybrid search returned id 1 and the fused
\* hit is the one of the vector sub-call.
C28_Witness ==
  /\ rrfPc = "return" /\ Len(calls) = 2
  /\ replies[1].kind = "array" /\ replies[2].kind = "array"
  /\ "1" \in IdsOfList(replies[1]) \cap IdsOfList(replies[2])
  /\ \E j \in DOMAIN rrfOut : rrfOut[j].id = "1" /\ rrfOut[j].src = 2

\* the mode of a request as C25 states it: mode when the field is present,
\* otherwise search_type when that field is present, otherwise "fulltext";
\* a field holding null counts as absent
StatedMode(req) ==
  IF req.mode \notin {Undefined, Null} THEN req.mode
  ELSE IF req.search_type \notin {Undefined, Null} THEN req.search_type
  ELSE Str("fulltext")

\* C25 as stated: POST handles an object body in the mode given by its mode
\* field when present, otherwise by search_type, otherwise "fulltext"; with
\* neither field, a non-empty query and the credential configured, the one
\* backend call is the BM25 call on the query.
C25_EffectiveMode ==
  [][(pc = "start" /\ request.kind = "object") =>
       /\ mode' = StatedMode(request)
       /\ (/\ request.mode = Undefined /\ request.search_type = Undefined
           /\ request.query = Str("cat") /\ Truthy(TPUF_API_KEY)) =>
             (Len(calls') = 1 /\ IsBM25Call(calls'[1], Str("cat")))]_vars

\* C26 as stated: in the response to a hybrid search whose sub-calls both
\* returned lists, the distance field of every result is the fusion score of
\* its id.
C26_DistanceIsFusionScore ==
  (/\ mode = Str("hybrid") /\ response.status = 200
   /\ \A c \in DOMAIN replies : replies[c].kind = "array") =>
    \A i \in DOMAIN response.body.arr :
      response.body.arr[i].distance = FusionScore(response.body.arr[i].id)

\* the requests the try block of POST rejects: a body that is not a JSON
\* object, a mode that is none of the four, or a query or vector that is not
\* valid for the mode
RejectedByValidation(req) ==
  \/ req.kind # "object"
  \/ EffectiveMode(req) \notin SupportedModes
  \/ FailsValidation(req)

\* C27: on a server without the backend credential, a request that fails
\* validation is answered with 400 and its validation message, and the
\* configuration error is only ever given to a request that passed validation.
C27_ValidationBeforeCredential ==
  /\ [][(pc = "start" /\ ~Truthy(TPUF_API_KEY) /\ RejectedByValidation(request))
          => (/\ response'.status = 400
              /\ response'.body # [error |-> "Server configuration error"])]_vars
  /\ [][(pc = "start" /\ response'.body = [error |-> "Server configuration error"])
          => (response'.status = 500 /\ ~RejectedByValidation(request))]_vars

\* C27 witness: without the credential, a phrase search with a blank query
\* was answered with the 400 of the validation.
C27_Witness ==
  /\ ~Truthy(TPUF_API_KEY)
  /\ mode = Str("phrase") /\ query = Str("  ")
  /\ response = [status |-> 400, body |-> [error |-> "Phrase search requires a non-empty query"]]

(***************************************************************************)
(* Properties of the search page (SpecPage)                                *)
(***************************************************************************)
\* the timers that are still to fire
PendingTimers == {t \in DOMAIN timers : timers[t].state = "pending"}

\* milliseconds since the last keystroke, up to DEBOUNCE_MS
SinceKeystroke == DEBOUNCE_MS - timers[Len(timers)].left

\* the calls of fetchResults made by a timer
CallsByTimer(log) == {s \in DOMAIN log : log[s].via # Undefined}

\* C29: at most one debounce timer is pending, and it is the one debounceTimer
\* names; a keystroke leaves no earlier timer pending and arms one timer of
\* 500 ms; a timer calls fetchResults only when 500 ms have passed since the
\* last keystroke, and no timer and no burst of keystrokes causes two calls.
C29_Debounce ==
  /\ [](/\ Cardinality(PendingTimers) <= 1
        /\ \A t \in PendingTimers : debounceTimer = Num(t))
  /\ [][Len(timers') = Len(timers) + 1 =>
          /\ \A t \in DOMAIN timers : timers'[t].state # "pending"
          /\ timers'[Len(timers')] = [left |-> DEBOUNCE_MS, state |-> "pending"]]_vars
  /\ [][\A s \in CallsByTimer(searches') \ DOMAIN searches :
          LET t == searches'[s].via.num
          IN /\ timers[t].state = "pending" /\ timers'[t].state = "fired"
             /\ t = Len(timers)
             /\ SinceKeystroke >= DEBOUNCE_MS
             /\ \A r \in CallsByTimer(searches) : searches[r].via # Num(t)]_vars
  /\ [](Cardinality(CallsByTimer(searches)) <=
          Cardinality({t \in DOMAIN timers : timers[t].state = "fired"}))

\* C29 witness: two keystrokes less than 500 ms apart; the timer of the first
\* was cleared, the timer of the second fired and made the only call.
C29_Witness ==
  /\ Len(timers) = 2
  /\ timers[1].state = "cleared" /\ timers[1].left > 0
  /\ timers[2].state = "fired"
  /\ Len(searches) = 1 /\ searches[1].via = Num(2)
  /\ searches[1].term = "ab"

\* no call of fetchResults is waiting for an answer
NoSearchInFlight == \A s \in DOMAIN searches : searches[s].pc = "done"

\* C30 as stated: once every search in flight has settled, and the term and
\* the type are still those of the search started last, the page shows the
\* answer to that search: its results when it succeeded, none when it failed.
C30_LatestSearchShown ==
  (/\ searches # <<>> /\ NoSearchInFlight
   /\ searches[Len(searches)].term = searchTerm
   /\ searches[Len(searches)].type = searchType) =>
    LET last == searches[Len(searches)]
    IN pageResults = IF last.outcome = "ok" THEN ResponseTo(last) ELSE <<>>

\* C31 as stated: in every state of the page, overlapping searches
\* included, an error that is not null comes with an empty results list.
C31_ErrorClearsResults ==
  pageError # Null => pageResults = <<>>

\* C32: in every state of the page, overlapping searches included, the flags
\* isLoadingEmbedding and isLoadingTurbopuffer are not both true, and both
\* are false when no call of fetchResults is waiting for an answer.
C32_LoadingFlags ==
  /\ ~(isLoadingEmbedding /\ isLoadingTurbopuffer)
  /\ NoSearchInFlight => (~isLoadingEmbedding /\ ~isLoadingTurbopuffer)

\* C32 witness: a semantic search that has its vector and a search started
\* after it are both waiting for /api/search; only isLoadingTurbopuffer is set.
C32_Witness ==
  /\ Len(searches) = 2
  /\ searches[1].type = "semantic" /\ searches[1].pc = "search"
  /\ searches[2].pc = "search"
  /\ isLoadingTurbopuffer /\ ~isLoadingEmbedding

====
